---- MODULE Spec2Model ----
(***************************************************************************)
(* Model of datacube/utils/geometry/_base.py: CRS values, Geometry         *)
(* reprojection and dyadic operations, densify, BoundingBox and the        *)
(* GeoBox pixel-grid algebra.                                              *)
(*                                                                         *)
(* The state machine draws one call (function name and arguments) in Init, *)
(* and one action per function applies that function to the drawn          *)
(* arguments and records the outcome                                       *)
(* (a returned value or a raised exception) and what the call stored in    *)
(* the two process-wide caches, which begin as the construction of the     *)
(* arguments left them.  Geometry.to_crs can be chained on its own result. *)
(* Four further specifications follow what is not a single step:           *)
(* SpecThreads, threads constructing CRS values through the cache of       *)
(* _make_crs; SpecProgram, a program constructing CRS values and asking    *)
(* for transformers through the cache of _make_crs_transform; SpecProcess, *)
(* threads doing both, each cached call in its steps, while CRS values are *)
(* dropped and new objects get fresh identities or those of freed objects; *)
(* SpecDensify, the loops of densify one iteration at a time.              *)
(*                                                                         *)
(* Numbers are Python floats in the source.  The model draws integer       *)
(* values, on which the float arithmetic of the modelled functions is      *)
(* exact; quotients are kept as exact fractions (numerator, denominator).  *)
(* densify is also followed on binary64 values, with their rounding.       *)
(***************************************************************************)
EXTENDS Integers, Sequences, FiniteSets, TLC

VARIABLES
    call,          \* the function being called and its arguments
    result,        \* its outcome: pending, a returned value, or an exception
    pc,            \* "call" before the function ran, "done" after; in the
                   \* other specifications, where the run is
    engine_calls,  \* how often the geometry engine (shapely) was invoked
    chain,         \* how many calls were chained on a previous result
    crs_cache,     \* the cache of _make_crs: entries (key, value)
    transform_cache, \* the cache of _make_crs_transform: entries (key, value)
    allocated,     \* how many engine objects the process has constructed
    threads,       \* of each thread: where it is in CRS(crs_str) or in
                   \* transformer_to_crs, the CRS values it made
    pool,          \* the CRS values the program of SpecProgram / SpecProcess holds
    transforms,    \* its transformer_to_crs calls and what they obtained
    constructed,   \* the keys Transformer.from_crs was called for, in order
    locals         \* the local variables of a densify call followed step by step

cachevars == <<crs_cache, transform_cache, allocated, threads, pool, transforms,
               constructed>>

vars == <<call, result, pc, engine_calls, chain, cachevars, locals>>

----
\* Python values

\* Python's None.
None == [kind |-> "None"]

\* A float is a finite number or an infinity.  Where the source can hold an
\* infinity, a finite number v is held as Num(v).
Num(v) == [kind |-> "num", v |-> v]

\* float('+inf') and float('-inf').
PosInf == [kind |-> "inf", sign |-> 1]
NegInf == [kind |-> "inf", sign |-> -1]

\* a < b on floats.
PyLt(a, b) ==
    IF a.kind = "inf" THEN a.sign = -1 /\ b # NegInf
    ELSE IF b.kind = "inf" THEN b.sign = 1
    ELSE a.v < b.v

\* min(a, b) that returns its first argument.
PyMin_first(a, b) == a

\* Python's min(a, b) and max(a, b) on floats: the first argument unless the
\* second is smaller (larger).
PyMin(a, b) == IF PyLt(b, a) THEN b ELSE a
PyMax(a, b) == IF PyLt(a, b) THEN b ELSE a

\* The float as the model holds it elsewhere: a finite number bare.
Bare(x) == IF x.kind = "num" THEN x.v ELSE x

Abs(x) == IF x < 0 THEN -x ELSE x

\* math.floor(n / d) and math.ceil(n / d) of the exact quotient, d # 0.
FloorDiv(n, d) == IF d > 0 THEN n \div d ELSE (-n) \div (-d)
CeilDiv(n, d) == -FloorDiv(-n, d)

\* Python's round() of the fraction n / d (d > 0): nearest, ties to even.
PyRound(n, d) ==
    LET q == n \div d
        r == n % d
    IN  IF 2 * r < d THEN q
        ELSE IF 2 * r > d THEN q + 1
        ELSE IF q % 2 = 0 THEN q ELSE q + 1

\* The outcome of a call.
Pending == [status |-> "pending"]
Return(v) == [status |-> "ok", value |-> v]
Raise(exc, msg) == [status |-> "raise", exc |-> exc, msg |-> msg]

----
\* CRS

\* A Python str.
PyStr(s) == [kind |-> "str", s |-> s]

\* The strings CRS values are constructed from.
CRSStrings == {"EPSG:4326", "epsg:4326", "EPSG:3857", "ESRI:54008", "esri:54008"}

\* The projection engine: pyproj's CRS.to_epsg() of the CRS parsed from a
\* string, as a set holding the code, or no element for None.
\* A PROJ string has no authority code of its own; the engine reports the
\* code of the EPSG entry it matches.
to_epsg(crs_str) ==
    CASE crs_str \in {"EPSG:4326", "epsg:4326", "WKT:WGS 84"} -> {4326}
      [] crs_str \in {"+proj=longlat +datum=WGS84 +no_defs", "WKT:unknown"} -> {4326}
      [] crs_str \in {"EPSG:3857", "WKT:WGS 84 / Pseudo-Mercator"} -> {3857}
      [] OTHER -> {}

\* The projection engine: the definition pyproj parses a string to; pyproj's
\* own == compares definitions.
proj_definition(crs_str) ==
    CASE crs_str \in {"EPSG:4326", "epsg:4326", "WKT:WGS 84"} -> "WGS 84"
      [] crs_str \in {"+proj=longlat +datum=WGS84 +no_defs", "WKT:unknown"} -> "unknown"
      [] crs_str \in {"EPSG:3857", "WKT:WGS 84 / Pseudo-Mercator"}
            -> "WGS 84 / Pseudo-Mercator"
      [] OTHER -> "World_Sinusoidal"

\* The projection engine: pyproj's CRS.to_wkt(), the text of the definition.
proj_to_wkt(proj) ==
    CASE proj.definition = "WGS 84" -> "WKT:WGS 84"
      [] proj.definition = "unknown" -> "WKT:unknown"
      [] proj.definition = "WGS 84 / Pseudo-Mercator" -> "WKT:WGS 84 / Pseudo-Mercator"
      [] OTHER -> "WKT:World_Sinusoidal"

\* 'EPSG:{}'.format(code)
format_epsg(code) == IF code = 4326 THEN "EPSG:4326" ELSE "EPSG:3857"

\* _make_crs: the projection object parsed from crs_str, and its EPSG code.
\* The function is memoised on the string, so the identity of the object is
\* the string it was parsed from.
_make_crs(crs_str) ==
    [proj |-> [id |-> crs_str, definition |-> proj_definition(crs_str)],
     epsg |-> to_epsg(crs_str)]

\* _guess_crs_str: the string form of a CRS spec, None when it has none.
_guess_crs_str(crs_spec) ==
    IF crs_spec.kind = "str" THEN crs_spec
    ELSE IF crs_spec.kind = "CRS" /\ crs_spec._epsg # {}
        THEN PyStr(format_epsg(CHOOSE e \in crs_spec._epsg : TRUE))
    ELSE IF crs_spec.kind = "CRS" THEN PyStr(proj_to_wkt(crs_spec._crs))
    ELSE None

\* CRS.__init__: the CRS constructed from crs_spec, or the CRSError raised.
CRS_init(crs_spec) ==
    LET crs_str == _guess_crs_str(crs_spec) IN
    IF crs_str = None
    THEN Raise("CRSError", "Expect string or any object with to_epsg or to_wkt method")
    ELSE LET made == _make_crs(crs_str.s) IN
         Return([kind |-> "CRS", _crs |-> made.proj, _epsg |-> made.epsg,
                 _str |-> crs_str.s])

\* CRS(s) for a string the projection engine accepts.
CRS(s) == CRS_init(PyStr(s)).value

\* CRS.geographic
CRS_geographic(crs) == crs._crs.definition \in {"WGS 84", "unknown"}

\* CRS.__eq__(self, other) for a CRS self and any other value.
CRS_eq(self, other) ==
    LET made == IF other.kind = "CRS" THEN Return(other) ELSE CRS_init(other) IN
    IF made.status = "raise" THEN FALSE
    ELSE LET o == made.value IN
         IF self._crs.id = o._crs.id THEN TRUE
         ELSE IF self._epsg # {} /\ o._epsg # {} THEN self._epsg = o._epsg
         ELSE self._crs.definition = o._crs.definition

\* CRS.to_wkt() with the default pretty and version.
CRS_to_wkt(self) == proj_to_wkt(self._crs)

\* Python's hash() of a str: equal for equal strings; no two of the few
\* strings of the model collide.
hash(s) == [hash_of |-> s]

\* CRS.__hash__
CRS_hash(self) == hash(CRS_to_wkt(self))

\* Python's a == b where each side is None or a CRS: None has no __eq__ for
\* a CRS, so Python asks the CRS side.
PyEq(a, b) ==
    IF a.kind = "CRS" THEN CRS_eq(a, b)
    ELSE IF b.kind = "CRS" THEN CRS_eq(b, a)
    ELSE a = b

\* Python's a != b: CRS.__ne__ is not (self == other).
PyNe(a, b) == ~PyEq(a, b)

\* _norm_crs
_norm_crs(crs) ==
    IF crs.kind = "CRS" THEN Return(crs)
    ELSE IF crs = None THEN Return(None)
    ELSE CRS_init(crs)

----
\* Affine transforms (the affine package): x' = a*x + b*y + c, y' = d*x + e*y + f

Affine(a, b, c, d, e, f) == [a |-> a, b |-> b, c |-> c, d |-> d, e |-> e, f |-> f]

Affine_translation(xoff, yoff) == Affine(1, 0, xoff, 0, 1, yoff)

Affine_scale(sx, sy) == Affine(sx, 0, 0, 0, sy, 0)

\* Affine.__mul__: the transform that applies B, then A.
Affine_mul(A, B) ==
    Affine(A.a * B.a + A.b * B.d,
           A.a * B.b + A.b * B.e,
           A.a * B.c + A.b * B.f + A.c,
           A.d * B.a + A.e * B.d,
           A.d * B.b + A.e * B.e,
           A.d * B.c + A.e * B.f + A.f)

\* ~R * G, the inverse of R composed with G, as exact fractions: the six
\* numerators over the common denominator det(R), made positive.
Affine_invert_mul(R, G) ==
    LET det == R.a * R.e - R.b * R.d
        sgn == IF det < 0 THEN -1 ELSE 1
        adj == Affine(R.e, -R.b, R.b * R.f - R.c * R.e,
                      -R.d, R.a, R.c * R.d - R.a * R.f)
        m   == Affine_mul(adj, G)
    IN  [num |-> Affine(sgn * m.a, sgn * m.b, sgn * m.c,
                        sgn * m.d, sgn * m.e, sgn * m.f),
         den |-> sgn * det]

\* is_affine_st (datacube.utils.geometry.tools): no shear, no rotation.
is_affine_st(A) == A.b = 0 /\ A.d = 0

\* 1 / tol for tol = 1.e-8, also numpy.isclose's 1 / atol.
tol_inverse == 100000000

\* numpy.isclose's rtol / atol, for rtol = 1.e-5 and atol = 1.e-8.
rtol_by_atol == 1000

\* numpy.isclose(n / den, b) for an integer b and den > 0:
\* |n/den - b| <= atol + rtol * |b|.
isclose(n, den, b) ==
    Abs(n - b * den) <= ((1 + rtol_by_atol * Abs(b)) * den) \div tol_inverse

\* is_almost_int(n / den, tol) (datacube.utils.math), den > 0: the distance
\* from n / den to the nearest integer is below tol.
is_almost_int(n, den) ==
    LET r == n % den
        dist == IF 2 * r > den THEN den - r ELSE r
    IN  dist <= (den - 1) \div tol_inverse

----
\* BoundingBox

BoundingBox(left, bottom, right, top) ==
    [left |-> left, bottom |-> bottom, right |-> right, top |-> top]

\* BoundingBox.width and BoundingBox.height: int() of the span.
BoundingBox_width(bb) == bb.right - bb.left
BoundingBox_height(bb) == bb.top - bb.bottom

\* bbox_union: the fold of min / max over the boxes, from the inverted
\* infinite box.
RECURSIVE bbox_union_fold(_, _, _, _, _, _)
bbox_union_fold(bbs, i, L, B, R, T) ==
    IF i > Len(bbs) THEN BoundingBox(Bare(L), Bare(B), Bare(R), Bare(T))
    ELSE bbox_union_fold(bbs, i + 1,
                         PyMin(Num(bbs[i].left), L),
                         PyMin(Num(bbs[i].bottom), B),
                         PyMax(Num(bbs[i].right), R),
                         PyMax(Num(bbs[i].top), T))

\* bbox_union taking the smallest right edge instead of the largest.
bbox_union_min_right(bbs) ==
    LET u == bbox_union_fold(bbs, 1, PosInf, PosInf, NegInf, NegInf)
        rights == {bbs[i].right : i \in 1..Len(bbs)}
    IN  IF Len(bbs) = 0 THEN u
        ELSE BoundingBox(u.left, u.bottom,
                         CHOOSE v \in rights : \A w \in rights : v <= w, u.top)

bbox_union(bbs) == bbox_union_fold(bbs, 1, PosInf, PosInf, NegInf, NegInf)

\* bbox_intersection: the fold of max / min over the boxes, from the
\* infinite box.
RECURSIVE bbox_intersection_fold(_, _, _, _, _, _)
bbox_intersection_fold(bbs, i, L, B, R, T) ==
    IF i > Len(bbs) THEN BoundingBox(Bare(L), Bare(B), Bare(R), Bare(T))
    ELSE bbox_intersection_fold(bbs, i + 1,
                                PyMax(Num(bbs[i].left), L),
                                PyMax(Num(bbs[i].bottom), B),
                                PyMin(Num(bbs[i].right), R),
                                PyMin(Num(bbs[i].top), T))

bbox_intersection(bbs) == bbox_intersection_fold(bbs, 1, NegInf, NegInf, PosInf, PosInf)

----
\* GeoBox

\* GeoBox.__init__: asserts an axis-aligned affine; the CRS is kept on the
\* extent polygon, whose constructor normalises it.
GeoBox(width, height, affine, crs) ==
    IF ~is_affine_st(affine)
    THEN Raise("AssertionError", "Only axis-aligned geoboxes are currently supported")
    ELSE LET c == _norm_crs(crs) IN
         IF c.status = "raise" THEN c
         ELSE Return([width |-> width, height |-> height, affine |-> affine,
                      crs |-> c.value])

\* GeoBox.shape
GeoBox_shape(gb) == <<gb.height, gb.width>>

\* GeoBox.resolution
GeoBox_resolution(gb) == <<gb.affine.e, gb.affine.a>>

\* GeoBox.is_empty
GeoBox_is_empty(gb) == gb.width = 0 \/ gb.height = 0

\* GeoBox.__eq__ for two GeoBoxes.
GeoBox_eq(self, other) ==
    /\ GeoBox_shape(self) = GeoBox_shape(other)
    /\ self.affine = other.affine
    /\ PyEq(self.crs, other.crs)

\* bounding_box_in_pixel_domain without the whole-pixel test on the y axis.
bounding_box_in_pixel_domain_no_y_test(geobox, reference) ==
    IF PyNe(reference.crs, geobox.crs)
    THEN Raise("ValueError", "Cannot combine geoboxes in different CRSs")
    ELSE LET t == Affine_invert_mul(reference.affine, geobox.affine)
             n == t.num
         IN  IF ~(/\ isclose(n.a, t.den, 1)
                  /\ isclose(n.b, t.den, 0)
                  /\ is_almost_int(n.c, t.den)
                  /\ isclose(n.d, t.den, 0)
                  /\ isclose(n.e, t.den, 1))
             THEN Raise("ValueError", "Incompatible grids")
             ELSE LET tx == PyRound(n.c, t.den)
                      ty == PyRound(n.f, t.den)
                  IN  Return(BoundingBox(tx, ty, tx + geobox.width, ty + geobox.height))

\* bounding_box_in_pixel_domain
bounding_box_in_pixel_domain(geobox, reference) ==
    IF PyNe(reference.crs, geobox.crs)
    THEN Raise("ValueError", "Cannot combine geoboxes in different CRSs")
    ELSE LET t == Affine_invert_mul(reference.affine, geobox.affine)
             n == t.num
         IN  IF ~(/\ isclose(n.a, t.den, 1)
                  /\ isclose(n.b, t.den, 0)
                  /\ is_almost_int(n.c, t.den)
                  /\ isclose(n.d, t.den, 0)
                  /\ isclose(n.e, t.den, 1)
                  /\ is_almost_int(n.f, t.den))
             THEN Raise("ValueError", "Incompatible grids")
             ELSE LET tx == PyRound(n.c, t.den)
                      ty == PyRound(n.f, t.den)
                  IN  Return(BoundingBox(tx, ty, tx + geobox.width, ty + geobox.height))

\* The generator (bounding_box_in_pixel_domain(geobox, reference=reference)
\* for geobox in geoboxes), evaluated to the end.
pixel_boxes(geoboxes, reference) ==
    [i \in 1..Len(geoboxes) |-> bounding_box_in_pixel_domain(geoboxes[i], reference)]

\* The exception that ends the iteration of the generator: that of the first
\* geobox whose pixel box cannot be computed.
first_raise(outcomes) ==
    outcomes[CHOOSE i \in 1..Len(outcomes) :
                /\ outcomes[i].status = "raise"
                /\ \A j \in 1..(i - 1) : outcomes[j].status = "ok"]

values(outcomes) == [i \in 1..Len(outcomes) |-> outcomes[i].value]

\* geobox_union_conservative sized by the pixel box but placed at the
\* reference's far corner.
geobox_union_conservative_far_corner(geoboxes) ==
    IF Len(geoboxes) = 0 THEN Raise("ValueError", "No geoboxes supplied")
    ELSE LET reference == geoboxes[1]
             boxes == pixel_boxes(geoboxes, reference)
         IN  IF \E i \in 1..Len(boxes) : boxes[i].status = "raise"
             THEN first_raise(boxes)
             ELSE LET bbox == bbox_union(values(boxes))
                      affine == Affine_mul(reference.affine,
                                           Affine_translation(bbox.right, bbox.top))
                  IN  GeoBox(BoundingBox_width(bbox), BoundingBox_height(bbox),
                             affine, reference.crs)

\* geobox_union_conservative
geobox_union_conservative(geoboxes) ==
    IF Len(geoboxes) = 0 THEN Raise("ValueError", "No geoboxes supplied")
    ELSE LET reference == geoboxes[1]
             boxes == pixel_boxes(geoboxes, reference)
         IN  IF \E i \in 1..Len(boxes) : boxes[i].status = "raise"
             THEN first_raise(boxes)
             ELSE LET bbox == bbox_union(values(boxes))
                      affine == Affine_mul(reference.affine,
                                           Affine_translation(bbox.left, bbox.bottom))
                  IN  GeoBox(BoundingBox_width(bbox), BoundingBox_height(bbox),
                             affine, reference.crs)

\* The intersection box left as it is, inverted edges included.
standardise_empty_skipped(bbox) == bbox

\* The two "standardise empty geobox representation" steps.
standardise_empty(bbox) ==
    LET b1 == IF bbox.left > bbox.right
              THEN BoundingBox(bbox.left, bbox.bottom, bbox.left, bbox.top)
              ELSE bbox
    IN  IF b1.bottom > b1.top
        THEN BoundingBox(b1.left, b1.bottom, b1.right, b1.bottom)
        ELSE b1

\* geobox_intersection_conservative
geobox_intersection_conservative(geoboxes) ==
    IF Len(geoboxes) = 0 THEN Raise("ValueError", "No geoboxes supplied")
    ELSE LET reference == geoboxes[1]
             boxes == pixel_boxes(geoboxes, reference)
         IN  IF \E i \in 1..Len(boxes) : boxes[i].status = "raise"
             THEN first_raise(boxes)
             ELSE LET bbox == standardise_empty(bbox_intersection(values(boxes)))
                      affine == Affine_mul(reference.affine,
                                           Affine_translation(bbox.left, bbox.bottom))
                  IN  GeoBox(BoundingBox_width(bbox), BoundingBox_height(bbox),
                             affine, reference.crs)

\* scaled_down_geobox that drops the pixels of a partial block.
scaled_down_geobox_truncating(src_geobox, scaler) ==
    IF ~(scaler > 1) THEN Raise("AssertionError", "scaler > 1")
    ELSE GeoBox(src_geobox.width \div scaler, src_geobox.height \div scaler,
                Affine_mul(src_geobox.affine, Affine_scale(scaler, scaler)),
                src_geobox.crs)

\* scaled_down_geobox
scaled_down_geobox(src_geobox, scaler) ==
    IF ~(scaler > 1) THEN Raise("AssertionError", "scaler > 1")
    ELSE LET H == src_geobox.height \div scaler
                  + (IF src_geobox.height % scaler # 0 THEN 1 ELSE 0)
             W == src_geobox.width \div scaler
                  + (IF src_geobox.width % scaler # 0 THEN 1 ELSE 0)
             A == Affine_mul(src_geobox.affine, Affine_scale(scaler, scaler))
         IN  GeoBox(W, H, A, src_geobox.crs)

----
\* densify

\* The integer square root: the largest k with k * k <= n.
isqrt(n) == CHOOSE k \in 0..n : k * k <= n /\ (k + 1) * (k + 1) > n

\* (p1[0] - p2[0])**2 + (p1[1] - p2[1])**2, the squared length of a segment.
length2(p1, p2) ==
    (p1[1] - p2[1]) * (p1[1] - p2[1]) + (p1[2] - p2[2]) * (p1[2] - p2[2])

\* short_enough, local to densify: (p1[0]**2 + p2[0]**2) < d2 for
\* d2 = resolution**2.  For integers, s < r * r exactly when isqrt(s) < |r|,
\* which keeps a resolution of 100000 within the checker's integers.
short_enough(p1, p2, resolution) ==
    isqrt(p1[1] * p1[1] + p2[1] * p2[1]) < Abs(resolution)

\* d < segment_length, the test of the while loop, for an integer d.
below_length(d, p1, p2) ==
    LET n == length2(p1, p2)
        k == isqrt(n)
    IN  d < k \/ (d = k /\ k * k < n)

\* segment.interpolate(d).coords: the point at distance d from p1 towards
\* p2; a negative d is measured back from p2, and a distance beyond an end
\* gives that end.
interpolate(p1, p2, d) ==
    LET L == isqrt(length2(p1, p2))
        e == IF d < 0 THEN L + d ELSE d
        c == IF e < 0 THEN 0 ELSE IF e > L THEN L ELSE e
    IN  IF L = 0 THEN p1
        ELSE <<p1[1] + ((p2[1] - p1[1]) * c) \div L,
               p1[2] + ((p2[2] - p1[2]) * c) \div L>>

\* The inner while loop of densify.
RECURSIVE densify_while(_, _, _, _, _)
densify_while(new_coords, p1, p2, d, resolution) ==
    IF below_length(d, p1, p2)
    THEN densify_while(Append(new_coords, interpolate(p1, p2, d)),
                       p1, p2, d + resolution, resolution)
    ELSE new_coords

\* The for loop of densify over the consecutive pairs, from pair i on.
RECURSIVE densify_for(_, _, _, _)
densify_for(coords, i, new_coords, resolution) ==
    IF i > Len(coords) - 1 THEN new_coords
    ELSE LET p1 == coords[i]
             p2 == coords[i + 1]
             inserted == IF ~short_enough(p1, p2, resolution)
                         THEN densify_while(new_coords, p1, p2, resolution, resolution)
                         ELSE new_coords
         IN  densify_for(coords, i + 1, Append(inserted, p2), resolution)

\* densify(coords, resolution) for a non-empty coords.
densify(coords, resolution) == densify_for(coords, 1, <<coords[1]>>, resolution)

----
\* densify on coordinates that are not whole numbers

\* A Python float (IEEE 754 binary64) in [0, 2) that is a multiple of 2^-56:
\* the value is (hi * 2^28 + lo) * 2^-56, with lo < 2^28.
LimbBase == 16384 * 16384

Double(hi, lo) == [kind |-> "double", hi |-> hi, lo |-> lo]

Zero == Double(0, 0)
One == Double(LimbBase, 0)
\* 0.1, 0.2 and 0.25 as binary64
Tenth == Double(26843545, 161061274)
Fifth == Double(53687091, 53687092)
Quarter == Double(67108864, 0)

\* The spacing of binary64 values around (hi, lo), in units of 2^-56: 53
\* significant bits, so 1 below 2^53 units and doubling with each binade.
RECURSIVE ulp(_)
ulp(hi) == IF hi < 32768 * 1024 THEN 1 ELSE 2 * ulp(hi \div 2)

\* Rounding of an exact value to binary64: to nearest, ties to even.
round_binary64(hi, lo) ==
    LET s == ulp(hi)
        q == lo \div s
        r == lo % s
        up == IF 2 * r > s \/ (2 * r = s /\ q % 2 = 1) THEN 1 ELSE 0
        lo2 == (q + up) * s
    IN  IF lo2 = LimbBase THEN Double(hi + 1, 0) ELSE Double(hi, lo2)

\* a + b on floats
float_add(a, b) ==
    LET lo == a.lo + b.lo
    IN  round_binary64(a.hi + b.hi + lo \div LimbBase, lo % LimbBase)

\* a < b on floats
float_lt(a, b) == a.hi < b.hi \/ (a.hi = b.hi /\ a.lo < b.lo)

\* a - b on floats, for a >= b
float_sub(a, b) ==
    LET borrow == IF a.lo < b.lo THEN 1 ELSE 0
    IN  round_binary64(a.hi - b.hi - borrow, a.lo + borrow * LimbBase - b.lo)

\* short_enough for whole x coordinates and a float resolution in (0, 1):
\* the whole number p1[0]**2 + p2[0]**2 is below resolution**2, a value in
\* (0, 1), exactly when it is 0.
short_enough_double(p1, p2, resolution) == p1[1] * p1[1] + p2[1] * p2[1] = 0

\* segment.length of a vertical segment: sqrt(0 + dy * dy), which is |dy|.
segment_length_double(p1, p2) ==
    IF float_lt(p1[2], p2[2]) THEN float_sub(p2[2], p1[2])
    ELSE float_sub(p1[2], p2[2])

\* segment.interpolate(d).coords on a vertical segment: the engine's
\* p1 + (d / length) * (p2 - p1).  Between y = 0 and y = 1 the fraction
\* d / 1.0 and its product with 1 or -1 are exact: the point is (x, d) going
\* up and (x, 1 - d), rounded once, going down.  On any other segment the y
\* of the point is kept as the expression the engine evaluates.
interpolate_double(p1, p2, d) ==
    IF p1[2] = Zero /\ p2[2] = One THEN <<p1[1], d>>
    ELSE IF p1[2] = One /\ p2[2] = Zero THEN <<p1[1], float_sub(One, d)>>
    ELSE <<p1[1], [kind |-> "interpolated", from |-> p1[2], to |-> p2[2], at |-> d]>>

\* The inner while loop of densify, on floats.
RECURSIVE densify_while_double(_, _, _, _, _)
densify_while_double(new_coords, p1, p2, d, resolution) ==
    IF float_lt(d, segment_length_double(p1, p2))
    THEN densify_while_double(Append(new_coords, interpolate_double(p1, p2, d)),
                              p1, p2, float_add(d, resolution), resolution)
    ELSE new_coords

\* The for loop of densify, on floats.
RECURSIVE densify_for_double(_, _, _, _)
densify_for_double(coords, i, new_coords, resolution) ==
    IF i > Len(coords) - 1 THEN new_coords
    ELSE LET p1 == coords[i]
             p2 == coords[i + 1]
             inserted == IF ~short_enough_double(p1, p2, resolution)
                         THEN densify_while_double(new_coords, p1, p2,
                                                   resolution, resolution)
                         ELSE new_coords
         IN  densify_for_double(coords, i + 1, Append(inserted, p2), resolution)

\* densify(coords, resolution) for a non-empty list of points of one
\* vertical line with float y, and a float resolution in (0, 1).
densify_double(coords, resolution) ==
    densify_for_double(coords, 1, <<coords[1]>>, resolution)

----
\* Geometry

\* Geometry.__init__ for a shapely geometry geom.
Geometry(geom, crs) ==
    LET c == _norm_crs(crs) IN
    IF c.status = "raise" THEN c
    ELSE Return([kind |-> "Geometry", crs |-> c.value, geom |-> geom])

\* shapely geometries: a type name and coordinates; a Polygon holds its
\* exterior ring and its interior rings, a multi-geometry its members.
Point(pt) == [type |-> "Point", coords |-> <<pt>>]
LineString(coords) == [type |-> "LineString", coords |-> coords]
Polygon(exterior, interiors) ==
    [type |-> "Polygon", exterior |-> exterior, interiors |-> interiors]
MultiLineString(members) == [type |-> "MultiLineString", members |-> members]

\* box(left, bottom, right, top, crs), as a shapely Polygon.
box_shape(left, bottom, right, top) ==
    Polygon(<<<<left, bottom>>, <<left, top>>, <<right, top>>, <<right, bottom>>,
              <<left, bottom>>>>, <<>>)

\* segmentize_shapely, local to Geometry.segmented.
RECURSIVE segmentize_shapely(_, _)
segmentize_shapely(geom, res) ==
    IF geom.type \in {"Point", "MultiPoint"} THEN geom
    ELSE IF geom.type \in {"GeometryCollection", "MultiPolygon", "MultiLineString"}
    THEN [geom EXCEPT !.members =
            [i \in 1..Len(geom.members) |-> segmentize_shapely(geom.members[i], res)]]
    ELSE IF geom.type \in {"LineString", "LinearRing"}
    THEN [geom EXCEPT !.coords = densify(geom.coords, res)]
    ELSE [geom EXCEPT !.exterior = densify(geom.exterior, res),
                      !.interiors = [i \in 1..Len(geom.interiors) |->
                                        densify(geom.interiors[i], res)]]

\* Geometry.segmented
segmented(self, res) == Geometry(segmentize_shapely(self.geom, res), self.crs)

\* The projection engine: where a projection puts the origin of WGS 84.
\* The engine's transform between two projections is modelled as the
\* translation between their frames.
frame(proj) ==
    CASE proj.definition \in {"WGS 84", "unknown"} -> <<0, 0>>
      [] proj.definition = "WGS 84 / Pseudo-Mercator" -> <<20, 10>>
      [] OTHER -> <<-10, 30>>

\* _make_crs_transform: Transformer.from_crs(from_crs, to_crs).transform
_make_crs_transform(from_crs, to_crs, always_xy) ==
    [from |-> from_crs, to |-> to_crs, always_xy |-> always_xy]

\* CRS.transformer_to_crs
transformer_to_crs(self, other) == _make_crs_transform(self._crs, other._crs, TRUE)

\* float('nan'), and numpy.isnan on one float.
NaN == [kind |-> "nan"]
isnan(v) == v = NaN

\* A numpy.ndarray of floats, and isinstance(v, numpy.ndarray).
ndarray(data) == [kind |-> "ndarray", data |-> data]
is_ndarray(v) == v.kind = "ndarray"

\* result(x, y), the function transformer_to_crs returns, from the pair
\* (rx, ry) the engine's transform gives for (x, y): each a float for float
\* arguments and an ndarray for ndarray arguments.
transformer_result(rx, ry) ==
    IF ~is_ndarray(rx) \/ ~is_ndarray(ry) THEN <<rx, ry>>
    ELSE LET missing == [i \in 1..Len(rx.data) |->
                            isnan(rx.data[i]) \/ isnan(ry.data[i])]
         IN  <<ndarray([i \in 1..Len(rx.data) |->
                          IF missing[i] THEN NaN ELSE rx.data[i]]),
               ndarray([i \in 1..Len(ry.data) |->
                          IF missing[i] THEN NaN ELSE ry.data[i]])>>

\* The function transformer_to_crs returns, on one point.
transform_point(transform, pt) ==
    <<pt[1] - frame(transform.from)[1] + frame(transform.to)[1],
      pt[2] - frame(transform.from)[2] + frame(transform.to)[2]>>

transform_coords(transform, coords) ==
    [i \in 1..Len(coords) |-> transform_point(transform, coords[i])]

\* shapely's ops.transform(func, geom): func on every coordinate, the type
\* and the nesting kept.
RECURSIVE ops_transform(_, _)
ops_transform(transform, geom) ==
    IF geom.type \in {"GeometryCollection", "MultiPolygon", "MultiLineString"}
    THEN [geom EXCEPT !.members =
            [i \in 1..Len(geom.members) |-> ops_transform(transform, geom.members[i])]]
    ELSE IF geom.type = "Polygon"
    THEN [geom EXCEPT !.exterior = transform_coords(transform, geom.exterior),
                      !.interiors = [i \in 1..Len(geom.interiors) |->
                                        transform_coords(transform, geom.interiors[i])]]
    ELSE [geom EXCEPT !.coords = transform_coords(transform, geom.coords)]

\* to_crs that leaves the source CRS on the projected geometry.
to_crs_keeps_source_crs(self, crs, res) ==
    LET c == _norm_crs(crs) IN
    IF c.status = "raise" THEN c
    ELSE IF PyEq(self.crs, c.value) THEN Return(self)
    ELSE IF c.value = None THEN Raise("AssertionError", "crs is not None")
    ELSE IF self.crs = None
    THEN Raise("ValueError", "Cannot project geometries without CRS")
    ELSE Geometry(ops_transform(transformer_to_crs(self.crs, c.value), self.geom),
                  self.crs)

\* Geometry.to_crs(crs, resolution) with wrapdateline=False; resolution is
\* None, an infinity or Num(v).
to_crs(self, crs, res) ==
    LET c == _norm_crs(crs) IN
    IF c.status = "raise" THEN c
    ELSE IF PyEq(self.crs, c.value) THEN Return(self)
    ELSE IF c.value = None THEN Raise("AssertionError", "crs is not None")
    ELSE IF self.crs = None
    THEN Raise("ValueError", "Cannot project geometries without CRS")
    ELSE LET r == IF res = None
                  THEN (IF CRS_geographic(self.crs) THEN Num(1) ELSE Num(100000))
                  ELSE res
             transform == transformer_to_crs(self.crs, c.value)
             clone == IF r.kind = "num"
                      THEN segmented(self, r.v).value.geom
                      ELSE self.geom
         IN  Geometry(ops_transform(transform, clone), c.value)

\* The shapely methods Geometry wraps with wrap_shapely.
Predicates ==
    {"contains", "crosses", "disjoint", "intersects", "touches", "within", "overlaps"}
ShapeMethods ==
    {"difference", "intersection", "symmetric_difference", "union",
     "__and__", "__or__", "__xor__", "__sub__"}

\* The geometry engine: what shapely's method returns for two geometries, a
\* bool for a predicate and a geometry otherwise; the value itself is the
\* engine's.
shapely_method(method, geom, other) ==
    IF method \in Predicates
    THEN [type |-> "bool", method |-> method, args |-> <<geom, other>>]
    ELSE [type |-> "GeometryCollection", method |-> method, args |-> <<geom, other>>]

\* isinstance(result, base.BaseGeometry)
is_BaseGeometry(x) == x.type # "bool"

\* wrapped that calls the geometry engine before it compares the CRS.
wrapped_engine_first(method, first, arg) ==
    IF PyNe(first.crs, arg.crs)
    THEN [outcome |-> Raise("CRSMismatchError", <<first.crs, arg.crs>>),
          invoked |-> <<method>>]
    ELSE LET r == shapely_method(method, first.geom, arg.geom) IN
         [outcome |-> IF is_BaseGeometry(r) THEN Geometry(r, first.crs) ELSE Return(r),
          invoked |-> <<method>>]

\* wrap_shapely's wrapped(first, arg): the outcome, and the methods of the
\* geometry engine it invoked.
wrapped(method, first, arg) ==
    IF PyNe(first.crs, arg.crs)
    THEN [outcome |-> Raise("CRSMismatchError", <<first.crs, arg.crs>>),
          invoked |-> <<>>]
    ELSE LET r == shapely_method(method, first.geom, arg.geom) IN
         [outcome |-> IF is_BaseGeometry(r) THEN Geometry(r, first.crs) ELSE Return(r),
          invoked |-> <<method>>]

\* All coordinates of a shapely geometry that bound it.
RECURSIVE all_coords(_)
RECURSIVE members_coords(_, _)
all_coords(geom) ==
    IF geom.type \in {"GeometryCollection", "MultiPolygon", "MultiLineString"}
    THEN members_coords(geom.members, 1)
    ELSE IF geom.type = "Polygon" THEN geom.exterior
    ELSE geom.coords

members_coords(members, i) ==
    IF i > Len(members) THEN <<>>
    ELSE all_coords(members[i]) \o members_coords(members, i + 1)

\* Geometry.boundingbox: shapely's bounds (minx, miny, maxx, maxy) of a
\* geometry that is not empty.
boundingbox(self) ==
    LET cs == all_coords(self.geom)
        xs == {cs[i][1] : i \in 1..Len(cs)}
        ys == {cs[i][2] : i \in 1..Len(cs)}
        lo(S) == CHOOSE v \in S : \A w \in S : v <= w
        hi(S) == CHOOSE v \in S : \A w \in S : v >= w
    IN  BoundingBox(lo(xs), lo(ys), hi(xs), hi(ys))

----
\* GeoBox.from_geopolygon

\* max(1, n)
at_least_one(n) == IF n < 1 THEN 1 ELSE n

\* _align_pix without the 0.1 * res taken off the span.
_align_pix_no_deadband(left, right, res, off) ==
    IF res < 0
    THEN LET r == -res
             val == CeilDiv(right - off, r) * r + off
             width == at_least_one(CeilDiv(val - left, r))
         IN  Return(<<val, width>>)
    ELSE IF res = 0 THEN Raise("ZeroDivisionError", "float division by zero")
    ELSE LET val == FloorDiv(left - off, res) * res + off
             width == at_least_one(CeilDiv(right - val, res))
         IN  Return(<<val, width>>)

\* _align_pix: (val, width), with (x - 0.1 * res) / res kept exact as
\* (10 * x - res) / (10 * res); dividing by a res of 0 raises.
_align_pix(left, right, res, off) ==
    IF res < 0
    THEN LET r == -res
             val == CeilDiv(right - off, r) * r + off
             width == at_least_one(CeilDiv(10 * (val - left) - r, 10 * r))
         IN  Return(<<val, width>>)
    ELSE IF res = 0 THEN Raise("ZeroDivisionError", "float division by zero")
    ELSE LET val == FloorDiv(left - off, res) * res + off
             width == at_least_one(CeilDiv(10 * (right - val) - res, 10 * res))
         IN  Return(<<val, width>>)

\* A Python tuple argument.
PyTuple(v) == [kind |-> "tuple", v |-> v]

\* The align test with the upper end left out.
align_in_range_half_open(a, res) == 0 <= a /\ a < Abs(res)

\* The two assertions of from_geopolygon on align = (y, x).
align_in_range(a, res) == 0 <= a /\ a <= Abs(res)

\* GeoBox.from_geopolygon(geopolygon, resolution, crs, align) for
\* resolution = (y_resolution, x_resolution); crs is None or a CRS, align is
\* None or PyTuple((y, x)).
from_geopolygon(geopolygon, res, crs, align) ==
    LET al == IF align = None THEN <<0, 0>> ELSE align.v IN
    IF ~align_in_range(al[2], res[2])
    THEN Raise("AssertionError", "X align must be in [0, abs(x_resolution)] range")
    ELSE IF ~align_in_range(al[1], res[1])
    THEN Raise("AssertionError", "Y align must be in [0, abs(y_resolution)] range")
    ELSE LET projected == IF crs = None THEN Return(geopolygon)
                          ELSE to_crs(geopolygon, crs, None)
         IN  IF projected.status = "raise" THEN projected
             ELSE LET crs1 == IF crs = None THEN geopolygon.crs ELSE crs
                      bounding_box == boundingbox(projected.value)
                      x == _align_pix(bounding_box.left, bounding_box.right, res[2], al[2])
                      y == _align_pix(bounding_box.bottom, bounding_box.top, res[1], al[1])
                  IN  IF x.status = "raise" THEN x
                      ELSE IF y.status = "raise" THEN y
                      ELSE LET affine == Affine_mul(
                                   Affine_translation(x.value[1], y.value[1]),
                                   Affine_scale(res[2], res[1]))
                           IN  GeoBox(x.value[2], y.value[2], affine, crs1)

----
\* GeoBox.__getitem__ and GeoBox.buffered

\* A Python int index, and slice(start, stop, step); a part of a slice is a
\* set holding its int, or no element for None.
PyInt(i) == [kind |-> "int", v |-> i]
slice(start, stop, step) ==
    [kind |-> "slice", start |-> start, stop |-> stop, step |-> step]

\* s.step is None or s.step == 1
unit_step(s) == s.step = {} \/ s.step = {1}

\* tools.roi_normalise on one slice of an axis of n pixels: None filled with
\* 0 / n, a negative index counted from the end.
norm_slice(s, n) ==
    LET fill(x, v) == IF x = {} THEN v ELSE CHOOSE i \in x : TRUE
        wrap(i) == IF i >= 0 THEN i ELSE n + i
    IN  slice({wrap(fill(s.start, 0))}, {wrap(fill(s.stop, n))}, s.step)

\* tools.roi_normalise(roi, shape) for a tuple roi of two slices.
roi_normalise(roi, shape) == [i \in 1..Len(roi) |-> norm_slice(roi[i], shape[i])]

\* tools.roi_shape(roi) for a normalised roi.
roi_shape(roi) ==
    [i \in 1..Len(roi) |->
        (CHOOSE v \in roi[i].stop : TRUE) - (CHOOSE v \in roi[i].start : TRUE)]

\* GeoBox.__getitem__ that tests the steps before it counts the components.
GeoBox_getitem_steps_first(self, roi) ==
    LET r == IF roi.kind = "int"
             THEN <<slice({roi.v}, {roi.v + 1}, {}), slice({}, {}, {})>>
             ELSE IF roi.kind = "slice" THEN <<roi, slice({}, {}, {})>>
             ELSE roi.v
    IN  IF ~(\A i \in 1..Len(r) : unit_step(r[i]))
        THEN Raise("NotImplementedError", "scaling not implemented, yet")
        ELSE IF Len(r) > 2 THEN Raise("ValueError", "Expect 2d slice")
        ELSE LET n == roi_normalise(r, GeoBox_shape(self))
                 ty == CHOOSE v \in n[1].start : TRUE
                 tx == CHOOSE v \in n[2].start : TRUE
                 hw == roi_shape(n)
             IN  GeoBox(hw[2], hw[1],
                        Affine_mul(self.affine, Affine_translation(tx, ty)), self.crs)

\* GeoBox.__getitem__(roi) for roi an int, a slice, or a tuple of two or
\* more slices.
GeoBox_getitem(self, roi) ==
    LET r == IF roi.kind = "int"
             THEN <<slice({roi.v}, {roi.v + 1}, {}), slice({}, {}, {})>>
             ELSE IF roi.kind = "slice" THEN <<roi, slice({}, {}, {})>>
             ELSE roi.v
    IN  IF Len(r) > 2 THEN Raise("ValueError", "Expect 2d slice")
        ELSE IF ~(\A i \in 1..Len(r) : unit_step(r[i]))
        THEN Raise("NotImplementedError", "scaling not implemented, yet")
        ELSE LET n == roi_normalise(r, GeoBox_shape(self))
                 ty == CHOOSE v \in n[1].start : TRUE
                 tx == CHOOSE v \in n[2].start : TRUE
                 hw == roi_shape(n)
             IN  GeoBox(hw[2], hw[1],
                        Affine_mul(self.affine, Affine_translation(tx, ty)), self.crs)

\* _round_to_res as a plain ceil(value / res).
_round_to_res_no_deadband(value, res) == CeilDiv(value, Abs(res))

\* _round_to_res: int(math.ceil((value - 0.1 * res) / res)) for res = abs(res),
\* kept exact as ceil((10 * value - res) / (10 * res)).
_round_to_res(value, res) == CeilDiv(10 * value - Abs(res), 10 * Abs(res))

\* GeoBox.buffered(ybuff, xbuff)
buffered(self, ybuff, xbuff) ==
    LET by == _round_to_res(ybuff, GeoBox_resolution(self)[1])
        bx == _round_to_res(xbuff, GeoBox_resolution(self)[2])
        affine == Affine_mul(self.affine, Affine_translation(-bx, -by))
    IN  GeoBox(self.width + 2 * bx, self.height + 2 * by, affine, self.crs)

----
\* The calls the model draws

\* Bounds of the model.
MaxPts == 3       \* points in a coordinate list given to densify
MaxK == 3         \* GeoBox offsets are 0, 5, ..., 5 * MaxK
MaxBoxes == 2     \* GeoBoxes in a list given to union / intersection
MaxCoord == 12    \* box edges given to _align_pix are in 0..MaxCoord
MaxDim == 5       \* width and height of a GeoBox given to scaled_down_geobox
MaxScaler == 3    \* scaler given to scaled_down_geobox
MaxChain == 1     \* to_crs calls chained on the result of a to_crs call
MaxArr == 2       \* points in an ndarray given to a transform function
MaxBBoxes == 3    \* boxes in a sequence given to bbox_union / bbox_intersection
MaxComponents == 3  \* slices in a tuple index of a GeoBox
MaxThreads == 2   \* threads constructing CRS values
MaxCalls == 2     \* CRS values one thread constructs
MaxTransforms == 3  \* transformer_to_crs calls of a single-threaded program
MaxInserted == 5    \* iterations one while loop of densify is followed for
MaxObjects == 4     \* engine objects a process of threads constructs
MaxProcessCalls == 3       \* CRS values the threads of a process construct
MaxProcessTransforms == 2  \* transformer_to_crs calls of the threads of a process

\* Sequences over S of length lo..hi.
SeqsOf(S, lo, hi) == UNION {[1..n -> S] : n \in lo..hi}

\* densify: points of a grid on which the 3-4-5 triangle makes slanted
\* segments of whole length.
DensifyPoints == {<<x, y>> : x \in {0, 3, 6}, y \in {0, 4, 8}}
DensifyResolutions == {2, 5}

\* The interpolated points of a segment have whole coordinates.
segment_exact(p1, p2, res) ==
    LET L == isqrt(length2(p1, p2)) IN
    /\ L * L = length2(p1, p2)
    /\ \A k \in 1..(L \div res) :
          /\ ((p2[1] - p1[1]) * k * res) % L = 0
          /\ ((p2[2] - p1[2]) * k * res) % L = 0

coords_exact(coords, res) ==
    \A i \in 1..(Len(coords) - 1) :
        short_enough(coords[i], coords[i + 1], res)
        \/ segment_exact(coords[i], coords[i + 1], res)

DensifyCalls ==
    {[fn |-> "densify", arithmetic |-> "whole", coords |-> a[1], resolution |-> a[2],
      pass |-> 1, first |-> a[1]] :
        a \in {b \in SeqsOf(DensifyPoints, 1, MaxPts) \X DensifyResolutions :
                 coords_exact(b[1], b[2])}}

\* densify on floats: the segment from (x, 0.0) to (x, 1.0), alone or
\* followed by a segment back to (x, 0.0), at resolutions 0.1, 0.2 and 0.25.
DensifyDoubleCalls ==
    {[fn |-> "densify", arithmetic |-> "binary64", unit |-> "2^-56",
      coords |-> cs, resolution |-> r, pass |-> 1, first |-> cs] :
        cs \in {<<<<x, Zero>>, <<x, One>>>> : x \in {0, 10}}
               \cup {<<<<10, Zero>>, <<10, One>>, <<10, Zero>>>>},
        r \in {Tenth, Fifth, Quarter}}

\* GeoBoxes: a family on one CRS with two pixel sizes and offsets of whole
\* and fractional pixels, and variants of its first box in CRS and shape.
WGS84 == CRS("EPSG:4326")

GridBoxes ==
    {GeoBox(10, 10, Affine(r, 0, 5 * kx, 0, -r, 15 * ky), WGS84).value :
        r \in {1, 2}, kx \in 0..MaxK, ky \in {0, 1}}

VariantBoxes ==
    {GeoBox(10, 10, Affine(1, 0, 0, 0, -1, 0), c).value :
        c \in {None, CRS("epsg:4326"), CRS("EPSG:3857")}}
    \cup {GeoBox(0, 10, Affine(1, 0, 5, 0, -1, 0), WGS84).value,
          GeoBox(4, 7, Affine(1, 0, 5, 0, -1, 15), WGS84).value}

GeoBoxes == GridBoxes \cup VariantBoxes

GeoBoxCalls ==
    {[fn |-> "bounding_box_in_pixel_domain", geobox |-> g, reference |-> r] :
        g \in GeoBoxes, r \in GeoBoxes}
    \cup {[fn |-> f, geoboxes |-> gs] :
            f \in {"geobox_union_conservative", "geobox_intersection_conservative"},
            gs \in SeqsOf(GeoBoxes, 0, MaxBoxes)}

\* scaled_down_geobox
ScaledDownCalls ==
    {[fn |-> "scaled_down_geobox",
      src_geobox |-> GeoBox(w, h, A, c).value, scaler |-> k] :
        w \in 0..MaxDim, h \in 0..MaxDim,
        A \in {Affine(1, 0, 0, 0, 1, 0), Affine(2, 0, 10, 0, -2, 20)},
        c \in {None, WGS84}, k \in 0..MaxScaler}

\* _align_pix
AlignPixCalls ==
    {[fn |-> "_align_pix", left |-> l, right |-> r, res |-> res, off |-> off] :
        l \in 0..MaxCoord, r \in 0..MaxCoord,
        res \in {1, -1, 3, -3, 10, -10}, off \in {0, 1, 2, 10}}

\* GeoBox.from_geopolygon on boxes
AlignValues == {-1, 0, 1, 10, 11}

FromGeopolygonCalls ==
    {[fn |-> "from_geopolygon",
      geopolygon |-> Geometry(box_shape(x[1], y[1], x[2], y[2]), gc).value,
      resolution |-> <<ry, rx>>, crs |-> c, align |-> al] :
        x \in {<<0, 10>>, <<0, 11>>, <<1, 12>>}, y \in {<<0, 10>>, <<2, 11>>},
        gc \in {None, WGS84},
        rx \in {1, -1, 10, 0}, ry \in {-1, 1, -10},
        c \in {None, CRS("epsg:4326"), CRS("EPSG:3857")},
        al \in {None} \cup {PyTuple(<<ay, ax>>) : ay \in AlignValues, ax \in AlignValues}}

\* Geometries for to_crs and the dyadic methods: a point and lines along
\* an axis, with every CRS and with none.
CRSValues == {None} \cup {CRS(str) : str \in CRSStrings}

Shapes == {Point(<<1, 2>>), LineString(<<<<0, 0>>, <<4, 0>>>>),
           LineString(<<<<0, 0>>, <<0, 3>>, <<2, 3>>>>)}

Geometries == {Geometry(g, c).value : g \in Shapes, c \in CRSValues}

Targets == CRSValues \cup {PyStr("EPSG:3857")}

Resolutions == {None, PosInf, Num(2)}

\* The marker of a to_crs call that is not chained on another.
NotChained == [kind |-> "NotChained"]

ToCrsCalls ==
    {[fn |-> "to_crs", self |-> g, crs |-> c, resolution |-> r, via |-> NotChained] :
        g \in Geometries, c \in Targets, r \in Resolutions}

DyadicCalls ==
    {[fn |-> "wrap_shapely", method |-> m, first |-> a, arg |-> b] :
        m \in Predicates \cup ShapeMethods,
        a \in {g \in Geometries : g.geom.type = "Point"},
        b \in {g \in Geometries : g.geom.type = "LineString" /\ Len(g.geom.coords) = 2}}

\* bbox_union and bbox_intersection: boxes that overlap, touch, are apart, or
\* have no width.
BBoxes ==
    {BoundingBox(x[1], y[1], x[2], y[2]) :
        x \in {<<0, 2>>, <<1, 3>>, <<3, 4>>, <<2, 2>>},
        y \in {<<0, 2>>, <<1, 3>>, <<3, 4>>}}

BBoxCalls ==
    {[fn |-> f, bbs |-> bbs] :
        f \in {"bbox_union", "bbox_intersection"},
        bbs \in SeqsOf(BBoxes, 0, MaxBBoxes)}

\* GeoBox.__getitem__: int, slice and tuple indices, of unit and other steps.
Slices ==
    {slice({}, {}, {}), slice({1}, {3}, {}), slice({0}, {2}, {1}),
     slice({}, {-1}, {2}), slice({1}, {3}, {-1})}

Rois ==
    {PyInt(i) : i \in {0, 2}} \cup Slices
    \cup {PyTuple(t) : t \in SeqsOf(Slices, 2, MaxComponents)}

SlicedBoxes ==
    {GeoBox(4, 7, Affine(1, 0, 5, 0, -1, 15), WGS84).value,
     GeoBox(10, 10, Affine(2, 0, 0, 0, -2, 0), None).value}

GetitemCalls ==
    {[fn |-> "__getitem__", self |-> g, roi |-> r] : g \in SlicedBoxes, r \in Rois}

\* GeoBox.buffered: buffers of a fraction of a pixel, of whole pixels and
\* more, at pixel sizes 1 and 20.
BufferedBoxes ==
    {GeoBox(4, 7, Affine(1, 0, 5, 0, -1, 15), WGS84).value,
     GeoBox(4, 7, Affine(20, 0, 100, 0, -20, 300), None).value}

Buffers == {-1, 0, 1, 2, 3, 4, 20, 21, 22, 23}

BufferedCalls ==
    {[fn |-> "buffered", self |-> g, ybuff |-> yb, xbuff |-> xb] :
        g \in BufferedBoxes, yb \in Buffers, xb \in Buffers}

\* CRS.__eq__ and CRS.__hash__: CRS values constructed from EPSG strings, a
\* PROJ string, WKT strings, and from objects with to_epsg and to_wkt (here
\* CRS values themselves).
HashStrings ==
    CRSStrings \cup {"+proj=longlat +datum=WGS84 +no_defs", "WKT:WGS 84",
                     "WKT:unknown", "WKT:World_Sinusoidal"}

HashCRSValues ==
    {CRS(str) : str \in HashStrings}
    \cup {CRS_init(CRS(str)).value : str \in HashStrings}

\* Each of them with the CRS values its construction went through: itself,
\* and for CRS(CRS(str)) the value CRS(str) it was constructed from.
HashCRSConstructions ==
    {[value |-> CRS(str), made |-> {CRS(str)}] : str \in HashStrings}
    \cup {[value |-> CRS_init(CRS(str)).value,
           made |-> {CRS(str), CRS_init(CRS(str)).value}] : str \in HashStrings}

EqHashCalls ==
    {[fn |-> "CRS.__eq__", a |-> a.value, b |-> b.value, made |-> a.made \cup b.made] :
        a \in HashCRSConstructions, b \in HashCRSConstructions}

\* The function transformer_to_crs returns: what the engine gives it for
\* float arguments and for ndarray arguments of equal length, any output
\* NaN or a number.
EngineFloats == {NaN, Num(1), Num(2)}

TransformerCalls ==
    {[fn |-> "transformer_to_crs", self |-> WGS84, other |-> CRS("EPSG:3857"),
      rx |-> x, ry |-> y] :
        x \in EngineFloats, y \in EngineFloats}
    \cup UNION {{[fn |-> "transformer_to_crs", self |-> WGS84,
                  other |-> CRS("EPSG:3857"),
                  rx |-> ndarray(x), ry |-> ndarray(y)] :
                    x \in [1..n -> EngineFloats], y \in [1..n -> EngineFloats]} :
                n \in 1..MaxArr}

Calls ==
    DensifyCalls \cup GeoBoxCalls \cup ScaledDownCalls \cup AlignPixCalls
    \cup FromGeopolygonCalls \cup ToCrsCalls \cup DyadicCalls
    \cup TransformerCalls \cup BBoxCalls \cup GetitemCalls \cup BufferedCalls
    \cup EqHashCalls \cup DensifyDoubleCalls

----
\* The process-wide caches

\* A cachetools cache, a dict: the entries of key k (none: KeyError), and
\* cache[k] = v.
cache_get(cache, k) == {e \in cache : e.key = k}
cache_set(cache, k, v) == {e \in cache : e.key # k} \cup {[key |-> k, value |-> v]}

\* The body of _make_crs: _CRS.from_user_input(crs_str) constructs a new
\* projection object, the n-th engine object of the process, whose identity
\* is n; the result is (crs, crs.to_epsg()).
_make_crs_body(crs_str, n) ==
    [proj |-> [id |-> n, definition |-> proj_definition(crs_str)],
     epsg |-> to_epsg(crs_str)]

\* CRS.__init__ after _make_crs returned made for the string crs_str.
CRS_of(made, crs_str) ==
    [kind |-> "CRS", _crs |-> made.proj, _epsg |-> made.epsg, _str |-> crs_str]

\* Python's id() of an engine object.
id(obj) == obj.id

\* The cache key that leaves the axis-order flag out.
_make_crs_transform_key_no_flag(src_crs, dst_crs, always_xy) ==
    <<id(src_crs), id(dst_crs), TRUE>>

\* _make_crs_transform_key
_make_crs_transform_key(src_crs, dst_crs, always_xy) ==
    <<id(src_crs), id(dst_crs), always_xy>>

\* The body of _make_crs_transform: Transformer.from_crs(...).transform of a
\* new Transformer, the n-th engine object of the process.
_make_crs_transform_body(src_crs, dst_crs, always_xy, n) ==
    [id |-> n, from |-> src_crs, to |-> dst_crs, always_xy |-> always_xy]

\* The two caches, the number of engine objects constructed and the keys
\* Transformer.from_crs was called for.
Caches(cc, tc, n, ks) ==
    [crs_cache |-> cc, transform_cache |-> tc, allocated |-> n, constructed |-> ks]

\* _make_crs(crs_str) through its cache, run to completion: the caches after
\* the call.  A hit changes nothing; a miss constructs a projection object
\* and stores it.
after_make_crs(c, crs_str) ==
    IF cache_get(c.crs_cache, crs_str) # {} THEN c
    ELSE [c EXCEPT !.crs_cache = cache_set(@, crs_str, _make_crs(crs_str)),
                   !.allocated = @ + 1]

\* _make_crs_transform(src_crs, dst_crs, always_xy) through its cache, run
\* to completion: the caches after the call.
after_make_crs_transform(c, src_crs, dst_crs, always_xy) ==
    LET k == _make_crs_transform_key(src_crs, dst_crs, always_xy) IN
    IF cache_get(c.transform_cache, k) # {} THEN c
    ELSE [c EXCEPT
            !.transform_cache =
                cache_set(@, k, _make_crs_transform_body(src_crs, dst_crs, always_xy,
                                                         c.allocated + 1)),
            !.allocated = @ + 1,
            !.constructed = Append(@, k)]

\* _norm_crs(crs): a str is parsed by CRS(crs), through the cache of
\* _make_crs; a CRS and None are passed on.
after_norm_crs(c, crs) ==
    IF crs.kind = "str" THEN after_make_crs(c, crs.s) ELSE c

\* Geometry.to_crs(crs, resolution): the caches after the call.  The target
\* is normalised; a call that goes on past the two early exits asks
\* self.crs.transformer_to_crs(crs) for the transform.
after_to_crs(c, self, crs) ==
    LET c1 == after_norm_crs(c, crs)
        target == _norm_crs(crs)
    IN  IF target.status = "raise" THEN c1
        ELSE IF PyEq(self.crs, target.value) THEN c1
        ELSE IF target.value = None \/ self.crs = None THEN c1
        ELSE after_make_crs_transform(c1, self.crs._crs, target.value._crs, TRUE)

\* GeoBox.from_geopolygon: the caches after the call.  geopolygon.to_crs(crs)
\* is called when both assertions hold and a crs was given.
after_from_geopolygon(c, geopolygon, res, crs, align) ==
    LET al == IF align = None THEN <<0, 0>> ELSE align.v IN
    IF ~align_in_range(al[2], res[2]) \/ ~align_in_range(al[1], res[1]) THEN c
    ELSE IF crs = None THEN c
    ELSE after_to_crs(c, geopolygon, crs)

\* The caches after the CRS values of a set were constructed in a new
\* process, each by CRS(crs_str): one entry of the cache of _make_crs for
\* every string.
after_construction(made) ==
    LET strs == {v._str : v \in {x \in made : x.kind = "CRS"}} IN
    Caches({[key |-> str, value |-> _make_crs(str)] : str \in strs},
           {}, Cardinality(strs), <<>>)

----
\* The state machine

\* The process before any CRS was constructed: empty caches, idle threads.
\* No densify call is being followed.
NoLocals == [i |-> 0]

Idle == [pc |-> "idle", crs_str |-> "", args |-> None, v |-> None, made |-> <<>>]

EmptyCaches ==
    /\ crs_cache = {}
    /\ transform_cache = {}
    /\ allocated = 0
    /\ threads = [t \in 1..MaxThreads |-> Idle]
    /\ pool = {}
    /\ transforms = <<>>
    /\ constructed = <<>>
    /\ locals = NoLocals

\* The caches are those of c; no thread runs and no program holds a value.
CachesAre(c) ==
    /\ crs_cache = c.crs_cache
    /\ transform_cache = c.transform_cache
    /\ allocated = c.allocated
    /\ constructed = c.constructed
    /\ threads = [t \in 1..MaxThreads |-> Idle]
    /\ pool = {}
    /\ transforms = <<>>
    /\ locals = NoLocals

\* The caches as the variables hold them.
caches == Caches(crs_cache, transform_cache, allocated, constructed)

\* The CRS arguments of a call: the CRS values constructed before it.
crs_arguments(c) ==
    CASE c.fn = "bounding_box_in_pixel_domain" -> {c.geobox.crs, c.reference.crs}
      [] c.fn \in {"geobox_union_conservative", "geobox_intersection_conservative"}
            -> {c.geoboxes[i].crs : i \in 1..Len(c.geoboxes)}
      [] c.fn = "scaled_down_geobox" -> {c.src_geobox.crs}
      [] c.fn = "from_geopolygon" -> {c.geopolygon.crs, c.crs}
      [] c.fn \in {"to_crs", "Geometry.to_crs"} -> {c.self.crs, c.crs}
      [] c.fn = "wrap_shapely" -> {c.first.crs, c.arg.crs}
      [] c.fn = "transformer_to_crs" -> {c.self, c.other}
      [] c.fn \in {"__getitem__", "buffered", "Geometry.segmented"} -> {c.self.crs}
      [] c.fn = "CRS.__eq__" -> c.made
      [] OTHER -> {}

\* The caches when a call begins, in a process that has done nothing but
\* construct the arguments of the call: the CRS values, and for a call of
\* the function transformer_to_crs returned, that function.
caches_before(c) ==
    IF c.fn = "transformer_to_crs"
    THEN after_make_crs_transform(after_construction(crs_arguments(c)),
                                  c.self._crs, c.other._crs, TRUE)
    ELSE after_construction(crs_arguments(c))

Init ==
    /\ call \in Calls
    /\ result = Pending
    /\ pc = "call"
    /\ engine_calls = <<>>
    /\ chain = 0
    /\ CachesAre(caches_before(call))

\* The drawn call returns or raises: its outcome is recorded.  The call
\* leaves the caches as they are.
Finish(outcome) ==
    /\ result' = outcome
    /\ pc' = "done"
    /\ UNCHANGED <<call, chain, cachevars, locals>>

\* The drawn call returns or raises after calls through the caches left
\* them as c.
FinishCached(outcome, c) ==
    /\ result' = outcome
    /\ pc' = "done"
    /\ crs_cache' = c.crs_cache
    /\ transform_cache' = c.transform_cache
    /\ allocated' = c.allocated
    /\ constructed' = c.constructed
    /\ UNCHANGED <<call, chain, threads, pool, transforms, locals>>

Densify ==
    /\ pc = "call" /\ call.fn = "densify"
    /\ Finish(Return(IF call.arithmetic = "whole"
                     THEN densify(call.coords, call.resolution)
                     ELSE densify_double(call.coords, call.resolution)))
    /\ UNCHANGED engine_calls

\* densify(densify(coords, resolution), resolution): densify is called on
\* the list a first densify call returned.
DensifyAgain ==
    /\ pc = "done" /\ call.fn = "densify" /\ call.pass = 1
    /\ call' = [call EXCEPT !.coords = result.value, !.pass = 2]
    /\ result' = Pending
    /\ pc' = "call"
    /\ UNCHANGED <<engine_calls, chain, cachevars, locals>>

BoundingBoxInPixelDomain ==
    /\ pc = "call" /\ call.fn = "bounding_box_in_pixel_domain"
    /\ Finish(bounding_box_in_pixel_domain(call.geobox, call.reference))
    /\ UNCHANGED engine_calls

GeoboxUnionConservative ==
    /\ pc = "call" /\ call.fn = "geobox_union_conservative"
    /\ Finish(geobox_union_conservative(call.geoboxes))
    /\ UNCHANGED engine_calls

GeoboxIntersectionConservative ==
    /\ pc = "call" /\ call.fn = "geobox_intersection_conservative"
    /\ Finish(geobox_intersection_conservative(call.geoboxes))
    /\ UNCHANGED engine_calls

ScaledDownGeobox ==
    /\ pc = "call" /\ call.fn = "scaled_down_geobox"
    /\ Finish(scaled_down_geobox(call.src_geobox, call.scaler))
    /\ UNCHANGED engine_calls

AlignPix ==
    /\ pc = "call" /\ call.fn = "_align_pix"
    /\ Finish(_align_pix(call.left, call.right, call.res, call.off))
    /\ UNCHANGED engine_calls

FromGeopolygon ==
    /\ pc = "call" /\ call.fn = "from_geopolygon"
    /\ FinishCached(from_geopolygon(call.geopolygon, call.resolution, call.crs,
                                    call.align),
                    after_from_geopolygon(caches, call.geopolygon, call.resolution,
                                          call.crs, call.align))
    /\ UNCHANGED engine_calls

ToCrs ==
    /\ pc = "call" /\ call.fn = "to_crs"
    /\ FinishCached(to_crs(call.self, call.crs, call.resolution),
                    after_to_crs(caches, call.self, call.crs))
    /\ UNCHANGED engine_calls

\* g.to_crs(c1).to_crs(c2): to_crs is called on the Geometry a to_crs call
\* returned.  A target that is a CRS value is constructed, by CRS(crs_str),
\* before the call.
ToCrsChained ==
    /\ pc = "done" /\ call.fn = "to_crs" /\ result.status = "ok"
    /\ chain < MaxChain
    /\ \E c \in Targets, r \in Resolutions :
          /\ call' = [fn |-> "to_crs", self |-> result.value, crs |-> c,
                      resolution |-> r, via |-> call.crs]
          /\ LET c1 == IF c.kind = "CRS" THEN after_make_crs(caches, c._str)
                       ELSE caches
             IN  /\ crs_cache' = c1.crs_cache
                 /\ allocated' = c1.allocated
    /\ result' = Pending
    /\ pc' = "call"
    /\ chain' = chain + 1
    /\ UNCHANGED <<engine_calls, transform_cache, constructed, threads, pool,
                   transforms, locals>>

\* A dyadic method of Geometry, wrapped by wrap_shapely.
Dyadic ==
    /\ pc = "call" /\ call.fn = "wrap_shapely"
    /\ LET w == wrapped(call.method, call.first, call.arg) IN
          /\ Finish(w.outcome)
          /\ engine_calls' = engine_calls \o w.invoked

\* The function transformer_to_crs returned is called.
TransformerResult ==
    /\ pc = "call" /\ call.fn = "transformer_to_crs"
    /\ Finish(Return(transformer_result(call.rx, call.ry)))
    /\ UNCHANGED engine_calls

BboxUnion ==
    /\ pc = "call" /\ call.fn = "bbox_union"
    /\ Finish(Return(bbox_union(call.bbs)))
    /\ UNCHANGED engine_calls

BboxIntersection ==
    /\ pc = "call" /\ call.fn = "bbox_intersection"
    /\ Finish(Return(bbox_intersection(call.bbs)))
    /\ UNCHANGED engine_calls

Getitem ==
    /\ pc = "call" /\ call.fn = "__getitem__"
    /\ Finish(GeoBox_getitem(call.self, call.roi))
    /\ UNCHANGED engine_calls

Buffered ==
    /\ pc = "call" /\ call.fn = "buffered"
    /\ Finish(buffered(call.self, call.ybuff, call.xbuff))
    /\ UNCHANGED engine_calls

\* a == b, hash(a) and hash(b) for two CRS values.
EqHash ==
    /\ pc = "call" /\ call.fn = "CRS.__eq__"
    /\ Finish(Return([eq |-> CRS_eq(call.a, call.b),
                      hash_a |-> CRS_hash(call.a), hash_b |-> CRS_hash(call.b)]))
    /\ UNCHANGED engine_calls

Next ==
    \/ Densify
    \/ DensifyAgain
    \/ BoundingBoxInPixelDomain
    \/ GeoboxUnionConservative
    \/ GeoboxIntersectionConservative
    \/ ScaledDownGeobox
    \/ AlignPix
    \/ FromGeopolygon
    \/ ToCrs
    \/ ToCrsChained
    \/ Dyadic
    \/ TransformerResult
    \/ BboxUnion
    \/ BboxIntersection
    \/ Getitem
    \/ Buffered
    \/ EqHash

Spec == Init /\ [][Next]_vars

----
\* Threads constructing CRS values through the cache of _make_crs

\* The strings the threads construct CRS values from.
ThreadStrings == {"EPSG:4326", "EPSG:3857"}

\* Threads constructing CRS values.  @cachetools.cached({}) has no lock: a
\* call looks its key up, on a miss calls the function, then stores what the
\* function returned and returns it; other threads run between these steps.
InitThreads ==
    /\ call = [fn |-> "CRS"]
    /\ result = Pending
    /\ pc = "threads"
    /\ engine_calls = <<>>
    /\ chain = 0
    /\ EmptyCaches

threadvars == <<call, result, pc, engine_calls, chain, locals, transform_cache, pool,
                transforms, constructed>>

\* Thread t calls CRS(crs_str): __init__ up to its call of _make_crs.
CallCRS(t) ==
    /\ pc = "threads" /\ threads[t].pc = "idle"
    /\ Len(threads[t].made) < MaxCalls
    /\ \E s \in ThreadStrings :
          threads' = [threads EXCEPT ![t].pc = "lookup", ![t].crs_str = s]
    /\ UNCHANGED <<threadvars, crs_cache, allocated>>

\* The cached wrapper looks the key up: on a hit it returns the cached value
\* and __init__ completes; on a miss it goes on to call the function.
CacheLookup(t) ==
    /\ pc = "threads" /\ threads[t].pc = "lookup"
    /\ LET hit == cache_get(crs_cache, threads[t].crs_str) IN
          IF hit # {}
          THEN LET e == CHOOSE e \in hit : TRUE IN
               threads' = [threads EXCEPT
                   ![t].pc = "idle",
                   ![t].made = Append(@, CRS_of(e.value, threads[t].crs_str))]
          ELSE threads' = [threads EXCEPT ![t].pc = "miss"]
    /\ UNCHANGED <<threadvars, crs_cache, allocated>>

\* After a miss the wrapper calls _make_crs itself.
CacheMiss(t) ==
    /\ pc = "threads" /\ threads[t].pc = "miss"
    /\ allocated' = allocated + 1
    /\ threads' = [threads EXCEPT
          ![t].pc = "store",
          ![t].v = _make_crs_body(threads[t].crs_str, allocated + 1)]
    /\ UNCHANGED <<threadvars, crs_cache>>

\* The wrapper stores the value it computed, cache[k] = v, and returns it;
\* __init__ completes.
CacheStore(t) ==
    /\ pc = "threads" /\ threads[t].pc = "store"
    /\ crs_cache' = cache_set(crs_cache, threads[t].crs_str, threads[t].v)
    /\ threads' = [threads EXCEPT
          ![t].pc = "idle",
          ![t].v = None,
          ![t].made = Append(@, CRS_of(threads[t].v, threads[t].crs_str))]
    /\ UNCHANGED <<threadvars, allocated>>

NextThreads ==
    \E t \in 1..MaxThreads :
        \/ CallCRS(t)
        \/ CacheLookup(t)
        \/ CacheMiss(t)
        \/ CacheStore(t)

SpecThreads == InitThreads /\ [][NextThreads]_vars

\* A single-threaded program: it constructs CRS values and calls
\* transformer_to_crs on them, one call after the other.
ProgramStrings == {"EPSG:4326", "EPSG:3857"}

InitProgram ==
    /\ call = [fn |-> "transformer_to_crs"]
    /\ result = Pending
    /\ pc = "program"
    /\ engine_calls = <<>>
    /\ chain = 0
    /\ EmptyCaches

programvars == <<call, result, pc, engine_calls, chain, locals, threads>>

\* CRS(crs_str), run to completion: _make_crs through its cache.
NewCRS ==
    /\ pc = "program"
    /\ \E s \in ProgramStrings :
          LET hit == cache_get(crs_cache, s)
              made == IF hit # {} THEN (CHOOSE e \in hit : TRUE).value
                      ELSE _make_crs_body(s, allocated + 1)
          IN  /\ CRS_of(made, s) \notin pool
              /\ pool' = pool \cup {CRS_of(made, s)}
              /\ crs_cache' = cache_set(crs_cache, s, made)
              /\ allocated' = IF hit # {} THEN allocated ELSE allocated + 1
    /\ UNCHANGED <<programvars, transform_cache, transforms, constructed>>

\* self.transformer_to_crs(other, always_xy), run to completion:
\* _make_crs_transform through its cache.
TransformerToCrs ==
    /\ pc = "program"
    /\ Len(transforms) < MaxTransforms
    /\ \E self \in pool, other \in pool, always_xy \in BOOLEAN :
          LET k == _make_crs_transform_key(self._crs, other._crs, always_xy)
              hit == cache_get(transform_cache, k)
              transform == IF hit # {} THEN (CHOOSE e \in hit : TRUE).value
                           ELSE _make_crs_transform_body(self._crs, other._crs,
                                                         always_xy, allocated + 1)
          IN  /\ transform_cache' = cache_set(transform_cache, k, transform)
              /\ allocated' = IF hit # {} THEN allocated ELSE allocated + 1
              /\ constructed' =
                    IF hit # {} THEN constructed
                    ELSE Append(constructed, <<id(self._crs), id(other._crs), always_xy>>)
              /\ transforms' = Append(transforms,
                    [self |-> self, other |-> other, always_xy |-> always_xy,
                     transform |-> transform])
    /\ UNCHANGED <<programvars, crs_cache, pool>>

NextProgram ==
    \/ NewCRS
    \/ TransformerToCrs

SpecProgram == InitProgram /\ [][NextProgram]_vars

----
\* Threads sharing both caches, with the memory of dropped objects reused

\* The threads that are in a call of transformer_to_crs.
in_transformer_to_crs ==
    {t \in 1..MaxThreads :
        threads[t].pc \in {"transform_lookup", "transform_miss", "transform_store"}}

\* The identities of the engine objects something still refers to: the
\* projection objects held by the cache of _make_crs, by the CRS values the
\* program holds, by a thread between the call of _make_crs and the store
\* and by the arguments of a running transformer_to_crs call; the
\* Transformer objects held by the cache of _make_crs_transform and by a
\* thread between the call of _make_crs_transform and the store.
live_ids ==
    {e.value.proj.id : e \in crs_cache}
    \cup {c._crs.id : c \in pool}
    \cup {threads[t].v.proj.id : t \in {u \in 1..MaxThreads : threads[u].pc = "store"}}
    \cup {e.value.id : e \in transform_cache}
    \cup UNION {{threads[t].args.self._crs.id, threads[t].args.other._crs.id} :
                    t \in in_transformer_to_crs}
    \cup {threads[t].v.id :
            t \in {u \in 1..MaxThreads : threads[u].pc = "transform_store"}}

\* id() of a new object: an identity no live object has, either that of an
\* object that was freed or one no object had before.  allocated objects
\* were constructed, so allocated + 1 was never given.
free_ids == (1..(allocated + 1)) \ live_ids

InitProcess ==
    /\ call = [fn |-> "CRS / transformer_to_crs"]
    /\ result = Pending
    /\ pc = "process"
    /\ engine_calls = <<>>
    /\ chain = 0
    /\ EmptyCaches

processvars == <<call, result, pc, engine_calls, chain, locals>>

\* The number of CRS(crs_str) calls the threads have begun.
crs_calls ==
    Cardinality(UNION {{<<t, i>> : i \in 1..Len(threads[t].made)} : t \in 1..MaxThreads})
    + Cardinality({t \in 1..MaxThreads : threads[t].pc \in {"lookup", "miss", "store"}})

\* Thread t calls CRS(crs_str): __init__ up to its call of _make_crs.
ProcessCallCRS(t) ==
    /\ pc = "process" /\ threads[t].pc = "idle"
    /\ Len(threads[t].made) < MaxCalls
    /\ crs_calls < MaxProcessCalls
    /\ \E s \in ThreadStrings :
          threads' = [threads EXCEPT ![t].pc = "lookup", ![t].crs_str = s]
    /\ UNCHANGED <<processvars, crs_cache, transform_cache, allocated, pool,
                   transforms, constructed>>

\* The cached wrapper of _make_crs looks the key up: on a hit it returns the
\* cached value, __init__ completes and the program holds the CRS value; on
\* a miss it goes on to call the function.
ProcessCacheLookup(t) ==
    /\ pc = "process" /\ threads[t].pc = "lookup"
    /\ LET hit == cache_get(crs_cache, threads[t].crs_str) IN
          IF hit # {}
          THEN LET e == CHOOSE e \in hit : TRUE
                   crs == CRS_of(e.value, threads[t].crs_str)
               IN  /\ threads' = [threads EXCEPT ![t].pc = "idle",
                                                 ![t].made = Append(@, crs)]
                   /\ pool' = pool \cup {crs}
          ELSE /\ threads' = [threads EXCEPT ![t].pc = "miss"]
               /\ UNCHANGED pool
    /\ UNCHANGED <<processvars, crs_cache, transform_cache, allocated,
                   transforms, constructed>>

\* After a miss the wrapper calls _make_crs itself: a new projection object.
ProcessCacheMiss(t) ==
    /\ pc = "process" /\ threads[t].pc = "miss"
    /\ allocated < MaxObjects
    /\ \E n \in free_ids :
          threads' = [threads EXCEPT
              ![t].pc = "store",
              ![t].v = _make_crs_body(threads[t].crs_str, n)]
    /\ allocated' = allocated + 1
    /\ UNCHANGED <<processvars, crs_cache, transform_cache, pool, transforms,
                   constructed>>

\* The wrapper stores the value it computed, cache[k] = v, in place of what
\* the key had, and returns it; __init__ completes and the program holds the
\* CRS value.
ProcessCacheStore(t) ==
    /\ pc = "process" /\ threads[t].pc = "store"
    /\ crs_cache' = cache_set(crs_cache, threads[t].crs_str, threads[t].v)
    /\ LET crs == CRS_of(threads[t].v, threads[t].crs_str) IN
          /\ threads' = [threads EXCEPT ![t].pc = "idle", ![t].v = None,
                                        ![t].made = Append(@, crs)]
          /\ pool' = pool \cup {crs}
    /\ UNCHANGED <<processvars, transform_cache, allocated, transforms,
                   constructed>>

\* Thread t calls self.transformer_to_crs(other, always_xy) on two CRS
\* values the program holds, up to the call of _make_crs_transform.
ProcessCallTransformerToCrs(t) ==
    /\ pc = "process" /\ threads[t].pc = "idle"
    /\ Len(transforms) + Cardinality(in_transformer_to_crs) < MaxProcessTransforms
    /\ \E self \in pool, other \in pool, always_xy \in BOOLEAN :
          threads' = [threads EXCEPT
              ![t].pc = "transform_lookup",
              ![t].args = [self |-> self, other |-> other, always_xy |-> always_xy]]
    /\ UNCHANGED <<processvars, crs_cache, transform_cache, allocated, pool,
                   transforms, constructed>>

\* The key of the call thread t is in.
transform_key(t) ==
    _make_crs_transform_key(threads[t].args.self._crs, threads[t].args.other._crs,
                            threads[t].args.always_xy)

\* Thread t has obtained transform: transformer_to_crs returns the function
\* built on it.
transformer_returned(t, transform) ==
    Append(transforms,
           [self |-> threads[t].args.self, other |-> threads[t].args.other,
            always_xy |-> threads[t].args.always_xy, transform |-> transform])

\* The cached wrapper of _make_crs_transform looks the key up: on a hit it
\* returns the cached transform; on a miss it goes on to call the function.
ProcessTransformLookup(t) ==
    /\ pc = "process" /\ threads[t].pc = "transform_lookup"
    /\ LET hit == cache_get(transform_cache, transform_key(t)) IN
          IF hit # {}
          THEN /\ transforms' = transformer_returned(t, (CHOOSE e \in hit : TRUE).value)
               /\ threads' = [threads EXCEPT ![t].pc = "idle", ![t].args = None]
          ELSE /\ threads' = [threads EXCEPT ![t].pc = "transform_miss"]
               /\ UNCHANGED transforms
    /\ UNCHANGED <<processvars, crs_cache, transform_cache, allocated, pool,
                   constructed>>

\* After a miss the wrapper calls _make_crs_transform itself: a new
\* Transformer.
ProcessTransformMiss(t) ==
    /\ pc = "process" /\ threads[t].pc = "transform_miss"
    /\ allocated < MaxObjects
    /\ \E n \in free_ids :
          threads' = [threads EXCEPT
              ![t].pc = "transform_store",
              ![t].v = _make_crs_transform_body(threads[t].args.self._crs,
                                                threads[t].args.other._crs,
                                                threads[t].args.always_xy, n)]
    /\ allocated' = allocated + 1
    /\ constructed' = Append(constructed, transform_key(t))
    /\ UNCHANGED <<processvars, crs_cache, transform_cache, pool, transforms>>

\* The wrapper stores the transform it computed, cache[k] = v, in place of
\* what the key had, and returns it.
ProcessTransformStore(t) ==
    /\ pc = "process" /\ threads[t].pc = "transform_store"
    /\ transform_cache' = cache_set(transform_cache, transform_key(t), threads[t].v)
    /\ transforms' = transformer_returned(t, threads[t].v)
    /\ threads' = [threads EXCEPT ![t].pc = "idle", ![t].args = None, ![t].v = None]
    /\ UNCHANGED <<processvars, crs_cache, allocated, pool, constructed>>

\* The program drops a CRS value it held: a projection object nothing else
\* refers to is freed with it.
DropCRS ==
    /\ pc = "process"
    /\ \E c \in pool : pool' = pool \ {c}
    /\ UNCHANGED <<processvars, crs_cache, transform_cache, allocated, threads,
                   transforms, constructed>>

NextProcess ==
    \/ \E t \in 1..MaxThreads :
          \/ ProcessCallCRS(t)
          \/ ProcessCacheLookup(t)
          \/ ProcessCacheMiss(t)
          \/ ProcessCacheStore(t)
          \/ ProcessCallTransformerToCrs(t)
          \/ ProcessTransformLookup(t)
          \/ ProcessTransformMiss(t)
          \/ ProcessTransformStore(t)
    \/ DropCRS

SpecProcess == InitProcess /\ [][NextProcess]_vars

----
\* densify, one iteration at a time

\* Points of one vertical line: every segment has a whole length.
LoopPoints == {<<1, y>> : y \in 0..3}
LoopResolutions == {-2, -1, 0, 1, 2}

\* densify(coords, r), LineString(coords).segmented(r) and
\* LineString(coords).to_crs(crs, resolution) for a non-empty coords.
LoopCalls ==
    {[fn |-> "densify", coords |-> cs, resolution |-> r] :
        cs \in SeqsOf(LoopPoints, 1, MaxPts), r \in LoopResolutions}
    \cup {[fn |-> "Geometry.segmented", coords |-> cs, resolution |-> r,
           self |-> Geometry(LineString(cs), WGS84).value] :
            cs \in SeqsOf(LoopPoints, 2, 2), r \in LoopResolutions}
    \cup {[fn |-> "Geometry.to_crs", coords |-> cs, resolution |-> r,
           self |-> Geometry(LineString(cs), WGS84).value,
           crs |-> CRS("EPSG:3857")] :
            cs \in SeqsOf(LoopPoints, 2, 2),
            r \in {None, PosInf, NegInf} \cup {Num(v) : v \in LoopResolutions}}

InitDensify ==
    /\ call \in LoopCalls
    /\ result = Pending
    /\ pc = "enter"
    /\ engine_calls = <<>>
    /\ chain = 0
    /\ CachesAre(caches_before(call))

loopvars == <<call, engine_calls, chain, threads, pool, transforms>>
loopcaches == <<crs_cache, transform_cache, allocated, constructed>>

\* The caches when a call has gone through lines 627 to 638 of to_crs; a
\* call of densify or segmented does not go through them.
EnterToCrs ==
    LET c == IF call.fn = "Geometry.to_crs" THEN after_to_crs(caches, call.self, call.crs)
             ELSE caches
    IN  /\ crs_cache' = c.crs_cache
        /\ transform_cache' = c.transform_cache
        /\ allocated' = c.allocated
        /\ constructed' = c.constructed

\* The resolution densify is called with: that of the call; for to_crs, 1
\* or 100000 when None was given.
resolution_given(c) ==
    IF c.fn # "Geometry.to_crs" THEN Num(c.resolution)
    ELSE IF c.resolution = None
    THEN (IF CRS_geographic(c.self.crs) THEN Num(1) ELSE Num(100000))
    ELSE c.resolution

\* math.isfinite(resolution)
isfinite(r) == r.kind = "num"

\* densify is entered: new_coords = [coords[0]], before the for loop.  n is
\* the number of iterations the current while loop has made.  to_crs has by
\* then normalised its target and obtained the transform.
EnterDensify ==
    /\ pc = "enter" /\ isfinite(resolution_given(call))
    /\ locals' = [resolution |-> resolution_given(call).v, i |-> 1,
                  new_coords |-> <<call.coords[1]>>, d |-> 0, n |-> 0]
    /\ pc' = "for"
    /\ EnterToCrs
    /\ UNCHANGED <<result, loopvars>>

\* to_crs with a resolution that is not finite: densify is not called.
ToCrsNotFinite ==
    /\ pc = "enter" /\ ~isfinite(resolution_given(call))
    /\ result' = to_crs(call.self, call.crs, call.resolution)
    /\ pc' = "returned"
    /\ EnterToCrs
    /\ UNCHANGED <<locals, loopvars>>

\* One iteration of the for loop up to the while loop: the pair
\* (coords[i], coords[i + 1]) is taken; a pair that is short enough has its
\* second point appended, any other enters the while loop with
\* d = resolution.  After the last pair the loop ends.
ForStep ==
    /\ pc = "for"
    /\ IF locals.i > Len(call.coords) - 1
       THEN pc' = "return" /\ UNCHANGED locals
       ELSE IF short_enough(call.coords[locals.i], call.coords[locals.i + 1],
                            locals.resolution)
       THEN /\ locals' = [locals EXCEPT
                            !.new_coords = Append(@, call.coords[locals.i + 1]),
                            !.i = @ + 1]
            /\ pc' = "for"
       ELSE /\ locals' = [locals EXCEPT !.d = locals.resolution, !.n = 0]
            /\ pc' = "while"
    /\ UNCHANGED <<result, loopvars, loopcaches>>

\* The test of the while loop and, when it holds, one iteration:
\* the point at distance d is appended and d += resolution.  When it does
\* not hold, the for iteration ends with new_coords.append(p2).  A while
\* loop is followed for MaxInserted iterations.
WhileStep ==
    /\ pc = "while"
    /\ LET p1 == call.coords[locals.i]
           p2 == call.coords[locals.i + 1]
       IN  IF below_length(locals.d, p1, p2)
           THEN /\ locals.n < MaxInserted
                /\ locals' = [locals EXCEPT
                                !.new_coords = Append(@, interpolate(p1, p2, locals.d)),
                                !.d = @ + locals.resolution,
                                !.n = @ + 1]
                /\ pc' = "while"
           ELSE /\ locals' = [locals EXCEPT !.new_coords = Append(@, p2),
                                            !.i = @ + 1]
                /\ pc' = "for"
    /\ UNCHANGED <<result, loopvars, loopcaches>>

\* densify returns new_coords; segmented and to_crs go on with the list.
ReturnDensify ==
    /\ pc = "return"
    /\ result' =
         CASE call.fn = "densify" -> Return(locals.new_coords)
           [] call.fn = "Geometry.segmented"
                -> Geometry(LineString(locals.new_coords), call.self.crs)
           [] OTHER
                -> Geometry(ops_transform(transformer_to_crs(call.self.crs, call.crs),
                                          LineString(locals.new_coords)),
                            call.crs)
    /\ pc' = "returned"
    /\ UNCHANGED <<locals, loopvars, loopcaches>>

NextDensify ==
    \/ EnterDensify
    \/ ToCrsNotFinite
    \/ ForStep
    \/ WhileStep
    \/ ReturnDensify

\* The interpreter goes on executing the call as long as it has a next step.
SpecDensify == InitDensify /\ [][NextDensify]_vars /\ WF_vars(NextDensify)

----
\* Claims

\* C1: for a coordinate list of at least two points and a positive
\* resolution, no two consecutive points of the list densify returns are
\* further apart than the resolution.
C1_NoEdgeExceedsResolution ==
    (pc = "done" /\ call.fn = "densify" /\ call.arithmetic = "whole"
        /\ Len(call.coords) >= 2 /\ call.resolution > 0)
    => \A i \in 1..(Len(result.value) - 1) :
          length2(result.value[i], result.value[i + 1])
              <= call.resolution * call.resolution

\* The grids of two GeoBoxes are compatible: equal CRS, equal pixel size with
\* no shear, and origins a whole number of reference pixels apart on both
\* axes.  In the model a pixel size or an offset that is off is off by more
\* than the tolerances of the source.
SameGrid(g, r) ==
    /\ PyEq(r.crs, g.crs)
    /\ g.affine.a = r.affine.a /\ g.affine.e = r.affine.e
    /\ g.affine.b = 0 /\ g.affine.d = 0
    /\ (g.affine.c - r.affine.c) % Abs(r.affine.a) = 0
    /\ (g.affine.f - r.affine.f) % Abs(r.affine.e) = 0

\* The whole-pixel translation from reference r to g, in pixels of r.
PixelShiftX(g, r) == CHOOSE t \in -100..100 : t * r.affine.a = g.affine.c - r.affine.c
PixelShiftY(g, r) == CHOOSE t \in -100..100 : t * r.affine.e = g.affine.f - r.affine.f

\* The box of g in the pixels of r.
PixelBox(g, r) ==
    BoundingBox(PixelShiftX(g, r), PixelShiftY(g, r),
                PixelShiftX(g, r) + g.width, PixelShiftY(g, r) + g.height)

\* C2: bounding_box_in_pixel_domain raises ValueError when the CRS differ or
\* the grids are not a whole-pixel translation of each other at equal pixel
\* size, and otherwise returns (tx, ty, tx + width, ty + height) for that
\* translation (tx, ty).
C2_PixelDomainBoxOrIncompatible ==
    (pc = "done" /\ call.fn = "bounding_box_in_pixel_domain")
    => IF SameGrid(call.geobox, call.reference)
       THEN result = Return(PixelBox(call.geobox, call.reference))
       ELSE result.status = "raise" /\ result.exc = "ValueError"

\* C2 witness: two GeoBoxes of equal CRS and pixel size, offset by a
\* fraction of a pixel, were refused.
C2_Witness ==
    /\ pc = "done" /\ call.fn = "bounding_box_in_pixel_domain"
    /\ PyEq(call.reference.crs, call.geobox.crs)
    /\ call.reference.affine.a = call.geobox.affine.a
    /\ call.reference.affine.e = call.geobox.affine.e
    /\ (call.geobox.affine.c - call.reference.affine.c) % Abs(call.reference.affine.a) # 0
    /\ result.status = "raise"

\* The least and the greatest number of a non-empty set.
Least(S) == CHOOSE v \in S : \A w \in S : v <= w
Greatest(S) == CHOOSE v \in S : \A w \in S : v >= w

\* Every GeoBox of the list is on the grid of the first.
AllSameGrid(gs) == \A i \in 1..Len(gs) : SameGrid(gs[i], gs[1])

\* The edges of the boxes of the list, in the pixels of the first.
Lefts(gs) == {PixelBox(gs[i], gs[1]).left : i \in 1..Len(gs)}
Rights(gs) == {PixelBox(gs[i], gs[1]).right : i \in 1..Len(gs)}
Bottoms(gs) == {PixelBox(gs[i], gs[1]).bottom : i \in 1..Len(gs)}
Tops(gs) == {PixelBox(gs[i], gs[1]).top : i \in 1..Len(gs)}

\* GeoBox gb is w by h pixels of reference r, its origin (tx, ty) pixels of r
\* from the origin of r, with the pixel size and the CRS of r.
PlacedAt(gb, r, tx, ty, w, h) ==
    /\ gb.width = w /\ gb.height = h
    /\ gb.affine = Affine(r.affine.a, 0, r.affine.c + tx * r.affine.a,
                          0, r.affine.e, r.affine.f + ty * r.affine.e)
    /\ gb.crs = r.crs

\* Two 10 by 10 GeoBoxes on one grid, the second 10 pixels along x from the
\* first and 0 along y.
AdjacentPair(gs) ==
    /\ Len(gs) = 2 /\ SameGrid(gs[2], gs[1])
    /\ \A i \in 1..2 : gs[i].width = 10 /\ gs[i].height = 10
    /\ PixelShiftX(gs[2], gs[1]) = 10 /\ PixelShiftY(gs[2], gs[1]) = 0

\* C3: on GeoBoxes of one grid, geobox_union_conservative returns the GeoBox
\* of the union of their pixel boxes and geobox_intersection_conservative
\* that of their intersection (of no width or height when they do not
\* overlap), both in the pixels of the first GeoBox; two adjacent 10 by 10
\* GeoBoxes 10 pixels apart give a union of 20 by 10 pixels at the origin of
\* the first and an intersection of width 0.
C3_UnionAndIntersectionOfPixelBoxes ==
    (pc = "done"
        /\ call.fn \in {"geobox_union_conservative", "geobox_intersection_conservative"}
        /\ Len(call.geoboxes) > 0 /\ AllSameGrid(call.geoboxes))
    => LET gs == call.geoboxes
           union == call.fn = "geobox_union_conservative"
           L == IF union THEN Least(Lefts(gs)) ELSE Greatest(Lefts(gs))
           B == IF union THEN Least(Bottoms(gs)) ELSE Greatest(Bottoms(gs))
           R == IF union THEN Greatest(Rights(gs)) ELSE Least(Rights(gs))
           T == IF union THEN Greatest(Tops(gs)) ELSE Least(Tops(gs))
           w == IF R > L THEN R - L ELSE 0
           h == IF T > B THEN T - B ELSE 0
       IN  /\ result.status = "ok"
           /\ PlacedAt(result.value, gs[1], L, B, w, h)
           /\ (AdjacentPair(gs) /\ union)
                => PlacedAt(result.value, gs[1], 0, 0, 20, 10)
           /\ (AdjacentPair(gs) /\ ~union)
                => result.value.width = 0 /\ GeoBox_is_empty(result.value)

\* C3 witness: the union of two adjacent 10 by 10 GeoBoxes was computed.
C3_Witness ==
    /\ pc = "done" /\ call.fn = "geobox_union_conservative"
    /\ Len(call.geoboxes) = 2 /\ AllSameGrid(call.geoboxes)
    /\ AdjacentPair(call.geoboxes)
    /\ result.status = "ok" /\ result.value.width = 20

\* C4: on a non-empty list of GeoBoxes of one grid,
\* geobox_intersection_conservative returns a GeoBox of width >= 0 and
\* height >= 0; when the pixel boxes do not overlap on an axis, the size on
\* that axis is 0 and the GeoBox is empty.
C4_IntersectionNeverNegative ==
    (pc = "done" /\ call.fn = "geobox_intersection_conservative"
        /\ Len(call.geoboxes) > 0 /\ AllSameGrid(call.geoboxes))
    => LET gs == call.geoboxes IN
       /\ result.status = "ok"
       /\ result.value.width >= 0 /\ result.value.height >= 0
       /\ Greatest(Lefts(gs)) > Least(Rights(gs))
            => result.value.width = 0 /\ GeoBox_is_empty(result.value)
       /\ Greatest(Bottoms(gs)) > Least(Tops(gs))
            => result.value.height = 0 /\ GeoBox_is_empty(result.value)

\* C4 witness: GeoBoxes with a gap between them on both axes were
\* intersected.
C4_Witness ==
    /\ pc = "done" /\ call.fn = "geobox_intersection_conservative"
    /\ Len(call.geoboxes) > 0 /\ AllSameGrid(call.geoboxes)
    /\ Greatest(Lefts(call.geoboxes)) > Least(Rights(call.geoboxes))
    /\ Greatest(Bottoms(call.geoboxes)) > Least(Tops(call.geoboxes))
    /\ result.status = "ok" /\ GeoBox_is_empty(result.value)

\* C5: geobox_union_conservative of a list of one GeoBox returns a GeoBox
\* equal to it: same shape, same affine, same CRS.
C5_UnionOfOneIsItself ==
    (pc = "done" /\ call.fn = "geobox_union_conservative" /\ Len(call.geoboxes) = 1)
    => /\ result.status = "ok"
       /\ GeoBox_eq(result.value, call.geoboxes[1])
       /\ GeoBox_shape(result.value) = GeoBox_shape(call.geoboxes[1])
       /\ result.value.affine = call.geoboxes[1].affine
       /\ result.value.crs = call.geoboxes[1].crs

\* C5 witness: the union of one GeoBox whose origin is not the origin of
\* its CRS was computed.
C5_Witness ==
    /\ pc = "done" /\ call.fn = "geobox_union_conservative"
    /\ Len(call.geoboxes) = 1
    /\ call.geoboxes[1].affine.c # 0 /\ call.geoboxes[1].affine.f # 0
    /\ result.status = "ok"

\* On one axis, origin val and pixel count n are the snapping of the box
\* [low, high] to the grid {off + k * |res|}: val is on the grid, the nearest
\* grid line at or below low when res > 0 and at or above high when res < 0,
\* and n is the least whole number >= 1 with n >= span / |res| - 0.1, the
\* span being from val to the far edge of the box.
Snapped(val, n, low, high, res, off) ==
    LET r == Abs(res)
        span == IF res > 0 THEN high - val ELSE val - low
    IN  /\ (val - off) % r = 0
        /\ res > 0 => val <= low /\ low - val < r
        /\ res < 0 => val >= high /\ val - high < r
        /\ n >= 1
        /\ 10 * n * r >= 10 * span - r
        /\ n > 1 => 10 * (n - 1) * r < 10 * span - r

\* The geopolygon from_geopolygon takes the bounding box of: the argument,
\* projected when a crs is given.
Projected(c) ==
    IF c.crs = None THEN Return(c.geopolygon) ELSE to_crs(c.geopolygon, c.crs, None)

\* The align of a from_geopolygon call, (0, 0) when none is given.
AlignOf(c) == IF c.align = None THEN <<0, 0>> ELSE c.align.v

\* The align of a from_geopolygon call is accepted by the source on both
\* axes.
AlignAccepted(c) ==
    /\ 0 <= AlignOf(c)[1] /\ AlignOf(c)[1] <= Abs(c.resolution[1])
    /\ 0 <= AlignOf(c)[2] /\ AlignOf(c)[2] <= Abs(c.resolution[2])

\* C6: _align_pix returns an origin on the grid {off + k * |res|}, at or
\* below the low edge for res > 0 and at or above the high edge for res < 0,
\* and the pixel count max(1, ceil(span / |res| - 0.1)) from that origin;
\* from_geopolygon snaps x and y of the bounding box so, each on its own,
\* into the affine (rx, 0, x origin, 0, ry, y origin); for box(0, 0, 10, 10)
\* and resolution (-1, 1) the shape is (10, 10) and the affine
\* (1, 0, 0, 0, -1, 10).
C6_OriginAndCountSnapped ==
    /\ (pc = "done" /\ call.fn = "_align_pix")
       => /\ result.status = "ok"
          /\ Snapped(result.value[1], result.value[2],
                     call.left, call.right, call.res, call.off)
    /\ (pc = "done" /\ call.fn = "from_geopolygon" /\ AlignAccepted(call)
          /\ call.resolution[1] # 0 /\ call.resolution[2] # 0
          /\ Projected(call).status = "ok")
       => LET bb == boundingbox(Projected(call).value)
              gb == result.value
              ry == call.resolution[1]
              rx == call.resolution[2]
          IN  /\ result.status = "ok"
              /\ gb.affine.a = rx /\ gb.affine.e = ry
              /\ gb.affine.b = 0 /\ gb.affine.d = 0
              /\ Snapped(gb.affine.c, gb.width, bb.left, bb.right, rx, AlignOf(call)[2])
              /\ Snapped(gb.affine.f, gb.height, bb.bottom, bb.top, ry, AlignOf(call)[1])
              /\ (bb = BoundingBox(0, 0, 10, 10) /\ ry = -1 /\ rx = 1
                    /\ AlignOf(call) = <<0, 0>>)
                 => /\ GeoBox_shape(gb) = <<10, 10>>
                    /\ gb.affine = Affine(1, 0, 0, 0, -1, 10)

\* C6 witness: from_geopolygon snapped a box whose right edge is a tenth of
\* a pixel past a grid line, and counted no pixel for it.
C6_Witness ==
    /\ pc = "done" /\ call.fn = "from_geopolygon"
    /\ call.resolution[2] = 10 /\ AlignOf(call) = <<0, 0>>
    /\ Projected(call).status = "ok"
    /\ boundingbox(Projected(call).value).left = 0
    /\ boundingbox(Projected(call).value).right = 11
    /\ result.status = "ok" /\ result.value.width = 1

\* The outcome is the failed assertion of from_geopolygon on align.
InvalidAlignment(r) ==
    /\ r.status = "raise" /\ r.exc = "AssertionError"
    /\ r.msg \in {"X align must be in [0, abs(x_resolution)] range",
                  "Y align must be in [0, abs(y_resolution)] range"}

\* C7, as stated: from_geopolygon fails with InvalidAlignment exactly when,
\* on some axis, align is outside the half-open [0, |resolution|), align
\* equal to |resolution| included.
C7_AlignHalfOpen ==
    (pc = "done" /\ call.fn = "from_geopolygon")
    => (InvalidAlignment(result)
        <=> ~(/\ 0 <= AlignOf(call)[1] /\ AlignOf(call)[1] < Abs(call.resolution[1])
              /\ 0 <= AlignOf(call)[2] /\ AlignOf(call)[2] < Abs(call.resolution[2])))

\* C7, amended: from_geopolygon fails with InvalidAlignment exactly when, on
\* some axis, align is outside the closed [0, |resolution|]; an align equal
\* to |resolution| is accepted, and a GeoBox is made only of an accepted align.
C7_AlignClosedInterval ==
    (pc = "done" /\ call.fn = "from_geopolygon")
    => /\ InvalidAlignment(result) <=> ~AlignAccepted(call)
       /\ result.status = "ok" => AlignAccepted(call)

\* C7 witness: a GeoBox was made with align equal to |resolution| on x.
C7_Witness ==
    /\ pc = "done" /\ call.fn = "from_geopolygon"
    /\ AlignOf(call)[2] = Abs(call.resolution[2]) /\ call.resolution[2] # 0
    /\ result.status = "ok" /\ result.value.width >= 1

\* The least whole number n with n * k >= m: ceil(m / k) for k > 0.
CeilOf(m, k) == CHOOSE n \in 0..m : n * k >= m /\ (n = 0 \/ (n - 1) * k < m)

\* C8: for scaler k > 1, scaled_down_geobox returns a GeoBox of height
\* ceil(H / k) and width ceil(W / k), with the CRS of the source and the
\* affine of the source with its pixel size multiplied by k and its origin
\* kept; 5 wide by 4 high with k = 2 gives shape (2, 3); k <= 1 is refused.
C8_ScaledDownPadsUp ==
    (pc = "done" /\ call.fn = "scaled_down_geobox")
    => LET src == call.src_geobox
           k == call.scaler
       IN  IF k > 1
           THEN /\ result.status = "ok"
                /\ result.value.height = CeilOf(src.height, k)
                /\ result.value.width = CeilOf(src.width, k)
                /\ result.value.height * k >= src.height
                /\ result.value.width * k >= src.width
                /\ result.value.crs = src.crs
                /\ result.value.affine =
                      Affine(src.affine.a * k, 0, src.affine.c,
                             0, src.affine.e * k, src.affine.f)
                /\ (src.width = 5 /\ src.height = 4 /\ k = 2)
                      => GeoBox_shape(result.value) = <<2, 3>>
           ELSE result.status = "raise" /\ result.exc = "AssertionError"

\* C8 witness: a 5 wide, 4 high GeoBox was scaled down by 2.
C8_Witness ==
    /\ pc = "done" /\ call.fn = "scaled_down_geobox"
    /\ call.src_geobox.width = 5 /\ call.src_geobox.height = 4 /\ call.scaler = 2
    /\ result.status = "ok" /\ GeoBox_shape(result.value) = <<2, 3>>

\* The target of a to_crs call, normalised as the source normalises it.
Target(c) == _norm_crs(c.crs).value

\* C9, as stated: to_crs returns the geometry unchanged when the target
\* equals its CRS (both None included), otherwise raises MissingCRS when the
\* geometry has no CRS, and otherwise returns a geometry with the target CRS.
C9_ToCrsAsStated ==
    (pc = "done" /\ call.fn = "to_crs")
    => IF PyEq(call.self.crs, Target(call)) THEN result = Return(call.self)
       ELSE IF call.self.crs = None
       THEN result.status = "raise" /\ result.exc = "ValueError"
       ELSE /\ result.status = "ok"
            /\ PyEq(result.value.crs, Target(call))

\* C9, amended: to_crs returns the geometry unchanged when the target equals
\* its CRS (both None included); otherwise it raises MissingCRS when the
\* geometry has no CRS, fails an assertion when the target is None, and
\* otherwise returns a geometry with the target CRS.  So on the result of
\* to_crs(c1), to_crs(c1) returns that same geometry, and to_crs(c2) for a
\* CRS c2 other than c1 returns a geometry with CRS c2 when the first
\* geometry had a CRS.
C9_ToCrsIdentityMissingOrTagged ==
    (pc = "done" /\ call.fn = "to_crs")
    => /\ IF PyEq(call.self.crs, Target(call)) THEN result = Return(call.self)
          ELSE IF call.self.crs = None
          THEN result.status = "raise" /\ result.exc = "ValueError"
          ELSE IF Target(call) = None
          THEN result.status = "raise" /\ result.exc = "AssertionError"
          ELSE /\ result.status = "ok"
               /\ result.value.crs = Target(call)
               /\ result.value.geom.type = call.self.geom.type
       /\ (call.via # NotChained /\ PyEq(_norm_crs(call.via).value, Target(call)))
            => result = Return(call.self)
       /\ (call.via # NotChained /\ ~PyEq(_norm_crs(call.via).value, Target(call))
             /\ Target(call) # None /\ call.self.crs # None)
            => result.status = "ok" /\ result.value.crs = Target(call)

\* C9 witness: to_crs(c1).to_crs(c2) for c1 other than c2 was computed on a
\* geometry with a CRS.
C9_Witness ==
    /\ pc = "done" /\ call.fn = "to_crs" /\ call.via # NotChained
    /\ call.via # None /\ Target(call) # None
    /\ ~PyEq(_norm_crs(call.via).value, Target(call))
    /\ call.self.crs # None
    /\ result.status = "ok" /\ result.value.crs = Target(call)

\* C10: a dyadic method whose operands differ in CRS, one of them None and
\* the other a CRS included, raises CRSMismatch with both CRS values and the
\* geometry engine is not called; otherwise the engine is called once, and a
\* shape it returns is wrapped with the CRS of the first operand.
C10_CrsCheckedBeforeEngine ==
    (pc = "done" /\ call.fn = "wrap_shapely")
    => /\ ((call.first.crs = None) # (call.arg.crs = None))
            => result.status = "raise"
       /\ IF PyEq(call.first.crs, call.arg.crs)
          THEN /\ result.status = "ok"
               /\ engine_calls = <<call.method>>
               /\ call.method \in ShapeMethods
                    => /\ result.value.kind = "Geometry"
                       /\ result.value.crs = call.first.crs
               /\ call.method \in Predicates => result.value.type = "bool"
          ELSE /\ result = Raise("CRSMismatchError", <<call.first.crs, call.arg.crs>>)
               /\ engine_calls = <<>>

\* C10 witness: a dyadic method was refused for a geometry with no CRS and
\* one with a CRS.
C10_Witness ==
    /\ pc = "done" /\ call.fn = "wrap_shapely"
    /\ call.first.crs = None /\ call.arg.crs # None
    /\ result.status = "raise" /\ result.exc = "CRSMismatchError"
    /\ engine_calls = <<>>

\* The points of an output of a transform function: one for floats, one per
\* element for ndarrays.
OutputPoints(v) ==
    IF is_ndarray(v[1])
    THEN {<<v[1].data[i], v[2].data[i]>> : i \in 1..Len(v[1].data)}
    ELSE {<<v[1], v[2]>>}

\* C11: in what the function returned by transformer_to_crs returns, for
\* floats and for ndarrays, the X of a point is NaN exactly when its Y is
\* NaN.
C11_NaNOnBothAxesOrNone ==
    (pc = "done" /\ call.fn = "transformer_to_crs")
    => \A p \in OutputPoints(result.value) : isnan(p[1]) <=> isnan(p[2])

\* The CRS values the threads have constructed.
MadeByThreads ==
    UNION {{threads[t].made[i] : i \in 1..Len(threads[t].made)} : t \in 1..MaxThreads}

\* C12: whatever the interleaving of the threads, all CRS values constructed
\* from one string reference the same projection object, the one the cache
\* holds for that string.
C12_OneProjectionObjectPerString ==
    \A a \in MadeByThreads :
        /\ \A b \in MadeByThreads : a._str = b._str => a._crs.id = b._crs.id
        /\ \A e \in cache_get(crs_cache, a._str) : e.value.proj.id = a._crs.id

\* Two transformer_to_crs calls are between the same two projection objects
\* with the same flag.
SameKey(c1, c2) ==
    /\ c1.self._crs.id = c2.self._crs.id
    /\ c1.other._crs.id = c2.other._crs.id
    /\ c1.always_xy = c2.always_xy

\* C13: after any sequence of transformer_to_crs calls, no transform was
\* constructed twice for one (source object, destination object, flag); calls
\* with the same three obtained the same transform, a transform between
\* those two objects with that flag, and calls that differ in the flag or in
\* an object obtained different transforms.
C13_TransformConstructedOncePerKey ==
    /\ \A i, j \in 1..Len(constructed) : constructed[i] = constructed[j] => i = j
    /\ \A i, j \in 1..Len(transforms) :
          SameKey(transforms[i], transforms[j])
              <=> transforms[i].transform.id = transforms[j].transform.id
    /\ \A i \in 1..Len(transforms) :
          /\ transforms[i].transform.from = transforms[i].self._crs
          /\ transforms[i].transform.to = transforms[i].other._crs
          /\ transforms[i].transform.always_xy = transforms[i].always_xy

\* C13 witness: three calls, two of them alike and one with the other flag,
\* constructed two transforms.
C13_Witness ==
    /\ pc = "program" /\ Len(transforms) = 3 /\ Len(constructed) = 2
    /\ SameKey(transforms[1], transforms[3])
    /\ transforms[1].always_xy # transforms[2].always_xy
    /\ transforms[1].self = transforms[2].self
    /\ transforms[1].other = transforms[2].other
    /\ transforms[1].self # transforms[1].other

\* The list sub, from its i-th point on, appears in order in the list full,
\* from its j-th point on.
RECURSIVE InOrderFrom(_, _, _, _)
InOrderFrom(sub, i, full, j) ==
    IF i > Len(sub) THEN TRUE
    ELSE IF j > Len(full) THEN FALSE
    ELSE IF sub[i] = full[j] THEN InOrderFrom(sub, i + 1, full, j + 1)
    ELSE InOrderFrom(sub, i, full, j + 1)

\* C14: for a positive resolution, the points of the list appear in the list
\* densify returns, in their order, its first and last point first and last;
\* and densify of the list a densify call returned, at the same resolution,
\* returns that list.
C14_DensifyKeepsPointsAndIsIdempotent ==
    (pc = "done" /\ call.fn = "densify"
        /\ IF call.arithmetic = "whole" THEN call.resolution > 0
           ELSE float_lt(Zero, call.resolution))
    => /\ result.status = "ok"
       /\ InOrderFrom(call.coords, 1, result.value, 1)
       /\ result.value[1] = call.coords[1]
       /\ result.value[Len(result.value)] = call.coords[Len(call.coords)]
       /\ Len(result.value) >= Len(call.coords)
       /\ call.pass = 2 => result.value = call.coords

\* The orderings of the places 1..n.
Orderings(n) == {p \in [1..n -> 1..n] : \A i, j \in 1..n : p[i] = p[j] => i = j}

\* The sequence s in the ordering p, and its parts up to and after place k.
Reordered(s, p) == [i \in 1..Len(s) |-> s[p[i]]]
Upto(s, k) == SubSeq(s, 1, k)
After(s, k) == SubSeq(s, k + 1, Len(s))

\* Two boxes with a gap between them on some axis.
Apart(a, b) ==
    \/ a.right < b.left \/ b.right < a.left
    \/ a.top < b.bottom \/ b.top < a.bottom

\* C15: bbox_union and bbox_intersection give the same box for every
\* ordering of the boxes and for every grouping of them into two groups
\* combined first; bbox_union of a box with itself is that box;
\* bbox_intersection of two boxes that are apart has left > right or
\* bottom > top; of no boxes, bbox_union gives (+inf, +inf, -inf, -inf) and
\* bbox_intersection (-inf, -inf, +inf, +inf).
C15_BboxFoldsOrderFree ==
    (pc = "done" /\ call.fn \in {"bbox_union", "bbox_intersection"})
    => LET bbs == call.bbs
           f(s) == IF call.fn = "bbox_union" THEN bbox_union(s)
                   ELSE bbox_intersection(s)
       IN  /\ result.status = "ok"
           /\ \A p \in Orderings(Len(bbs)) : f(Reordered(bbs, p)) = result.value
           /\ \A k \in 1..(Len(bbs) - 1) :
                 /\ f(<<f(Upto(bbs, k)), f(After(bbs, k))>>) = result.value
                 /\ f(<<f(Upto(bbs, k))>> \o After(bbs, k)) = result.value
                 /\ f(Upto(bbs, k) \o <<f(After(bbs, k))>>) = result.value
           /\ (call.fn = "bbox_union" /\ Len(bbs) = 2 /\ bbs[1] = bbs[2])
                 => result.value = bbs[1]
           /\ (call.fn = "bbox_intersection" /\ Len(bbs) = 2 /\ Apart(bbs[1], bbs[2]))
                 => \/ result.value.left > result.value.right
                    \/ result.value.bottom > result.value.top
           /\ (call.fn = "bbox_union" /\ bbs = <<>>)
                 => result.value = BoundingBox(PosInf, PosInf, NegInf, NegInf)
           /\ (call.fn = "bbox_intersection" /\ bbs = <<>>)
                 => result.value = BoundingBox(NegInf, NegInf, PosInf, PosInf)

\* C15 witness: bbox_intersection of three boxes, not all alike, the first
\* two apart, gave an inverted box.
C15_Witness ==
    /\ pc = "done" /\ call.fn = "bbox_intersection" /\ Len(call.bbs) = 3
    /\ Apart(call.bbs[1], call.bbs[2]) /\ call.bbs[3] # call.bbs[1]
    /\ result.value.left > result.value.right

\* The slices of an index: an int or a slice indexes one axis and leaves the
\* other whole.
Components(roi) ==
    IF roi.kind = "int" THEN <<slice({roi.v}, {roi.v + 1}, {})>>
    ELSE IF roi.kind = "slice" THEN <<roi>>
    ELSE roi.v

\* The index has a slice whose step is neither None nor 1.
HasOtherStep(roi) ==
    \E i \in 1..Len(Components(roi)) :
        Components(roi)[i].step # {} /\ Components(roi)[i].step # {1}

\* C16, as stated: GeoBox.__getitem__ raises NotImplementedError for every
\* index with a slice whose step is neither None nor 1, and fails for every
\* index of more than two components; no GeoBox is returned.
C16_GetitemAsStated ==
    (pc = "done" /\ call.fn = "__getitem__")
    => /\ HasOtherStep(call.roi)
            => result.status = "raise" /\ result.exc = "NotImplementedError"
       /\ Len(Components(call.roi)) > 2 => result.status = "raise"

\* C16, amended: GeoBox.__getitem__ raises ValueError for every index of
\* more than two components, whatever its steps, and NotImplementedError for
\* every index of at most two components with a slice whose step is neither
\* None nor 1; no GeoBox is returned, and any other index raises neither.
C16_GetitemRejectsByCountThenStep ==
    (pc = "done" /\ call.fn = "__getitem__")
    => IF Len(Components(call.roi)) > 2
       THEN result = Raise("ValueError", "Expect 2d slice")
       ELSE IF HasOtherStep(call.roi)
       THEN result.status = "raise" /\ result.exc = "NotImplementedError"
       ELSE ~(result.status = "raise"
              /\ result.exc \in {"ValueError", "NotImplementedError"})

\* C16 witness: an index of three slices, one of a step of 2, was refused
\* with ValueError.
C16_Witness ==
    /\ pc = "done" /\ call.fn = "__getitem__"
    /\ Len(Components(call.roi)) = 3 /\ HasOtherStep(call.roi)
    /\ result.status = "raise" /\ result.exc = "ValueError"

\* b is the whole pixel count of the buffer buff at pixel size res:
\* ceil(buff / |res| - 0.1), the least whole number b with
\* b >= buff / |res| - 0.1.
PixelBuffer(b, buff, res) ==
    /\ 10 * b * Abs(res) >= 10 * buff - Abs(res)
    /\ 10 * (b - 1) * Abs(res) < 10 * buff - Abs(res)

\* C17: GeoBox.buffered(ybuff, xbuff) returns a GeoBox of width + 2 * bx and
\* height + 2 * by for the pixel counts b = ceil(buff / |res| - 0.1) of its
\* axis (0 for 0.05 of a pixel, 1 for 0.2 of a pixel), with the CRS and the
\* pixel size of the original and its origin bx pixels before the original's
\* on x and by pixels on y, so that pixel (by, bx) of the result is pixel
\* (0, 0) of the original.
C17_BufferedGrowsByWholePixels ==
    (pc = "done" /\ call.fn = "buffered")
    => LET g == call.self
           r == result.value
           bx == CHOOSE b \in -100..100 : PixelBuffer(b, call.xbuff, g.affine.a)
           by == CHOOSE b \in -100..100 : PixelBuffer(b, call.ybuff, g.affine.e)
       IN  /\ result.status = "ok"
           /\ r.width = g.width + 2 * bx
           /\ r.height = g.height + 2 * by
           /\ r.crs = g.crs
           /\ GeoBox_resolution(r) = GeoBox_resolution(g)
           /\ r.affine.b = 0 /\ r.affine.d = 0
           /\ r.affine.c + bx * r.affine.a = g.affine.c
           /\ r.affine.f + by * r.affine.e = g.affine.f
           /\ (20 * call.xbuff = Abs(g.affine.a)) => r.width = g.width
           /\ (5 * call.xbuff = Abs(g.affine.a)) => r.width = g.width + 2

\* C17 witness: a GeoBox of 20 unit pixels was buffered by 4 units on x, a
\* fifth of a pixel, and by 1 unit on y, a twentieth, and grew by one pixel
\* on each side on x only.
C17_Witness ==
    /\ pc = "done" /\ call.fn = "buffered"
    /\ call.self.affine.a = 20 /\ call.xbuff = 4 /\ call.ybuff = 1
    /\ result.status = "ok"
    /\ result.value.width = call.self.width + 2
    /\ result.value.height = call.self.height
    /\ result.value.affine.c = call.self.affine.c - 20

\* C18: two CRS values that are equal have equal hashes.
C18_EqualCRSHashEqual ==
    (pc = "done" /\ call.fn = "CRS.__eq__")
    => (result.value.eq => result.value.hash_a = result.value.hash_b)

\* Every two GeoBoxes of the list are on one grid.
MutuallyCompatible(gs) ==
    \A i \in 1..Len(gs) : \A j \in 1..Len(gs) : SameGrid(gs[i], gs[j])

\* The box of inner, in the pixels of outer, lies within
\* [0, width] x [0, height] of outer.
Within(inner, outer) ==
    LET bb == PixelBox(inner, outer) IN
    /\ 0 <= bb.left /\ bb.left <= bb.right /\ bb.right <= outer.width
    /\ 0 <= bb.bottom /\ bb.bottom <= bb.top /\ bb.top <= outer.height

\* The pixel boxes of the list have a common part on both axes, touching
\* edges included.
Overlapping(gs) ==
    /\ Greatest(Lefts(gs)) <= Least(Rights(gs))
    /\ Greatest(Bottoms(gs)) <= Least(Tops(gs))

\* C19: on a non-empty list of mutually compatible GeoBoxes, in any order,
\* the union contains every input, the intersection is contained in every
\* input, and both are on the grid of every input.
C19_UnionContainsIntersectionContained ==
    (pc = "done"
        /\ call.fn \in {"geobox_union_conservative", "geobox_intersection_conservative"}
        /\ Len(call.geoboxes) > 0 /\ MutuallyCompatible(call.geoboxes))
    => /\ result.status = "ok"
       /\ \A i \in 1..Len(call.geoboxes) :
            /\ SameGrid(result.value, call.geoboxes[i])
            /\ IF call.fn = "geobox_union_conservative"
               THEN Within(call.geoboxes[i], result.value)
               ELSE Within(result.value, call.geoboxes[i])

\* Where the intersection leaves its inputs: it is contained in every input
\* when the inputs' pixel boxes overlap; otherwise it is an empty GeoBox
\* whose left and bottom edges are the greatest left and bottom edges of the
\* inputs.  The union contains every input and both are on the grid of
\* every input, in any order.
ContainedWhenOverlappingElseEmptyAtGreatestEdges ==
    (pc = "done"
        /\ call.fn \in {"geobox_union_conservative", "geobox_intersection_conservative"}
        /\ Len(call.geoboxes) > 0 /\ MutuallyCompatible(call.geoboxes))
    => /\ result.status = "ok"
       /\ \A i \in 1..Len(call.geoboxes) :
            /\ SameGrid(result.value, call.geoboxes[i])
            /\ call.fn = "geobox_union_conservative"
                 => Within(call.geoboxes[i], result.value)
            /\ (call.fn = "geobox_intersection_conservative"
                    /\ Overlapping(call.geoboxes))
                 => Within(result.value, call.geoboxes[i])
            /\ (call.fn = "geobox_intersection_conservative"
                    /\ ~Overlapping(call.geoboxes))
                 => /\ GeoBox_is_empty(result.value)
                    /\ PixelBox(result.value, call.geoboxes[1]).left
                          = Greatest(Lefts(call.geoboxes))
                    /\ PixelBox(result.value, call.geoboxes[1]).bottom
                          = Greatest(Bottoms(call.geoboxes))

\* The intersection of two GeoBoxes that do not overlap left the first of
\* them.
IntersectionOutsideAnInput ==
    /\ pc = "done" /\ call.fn = "geobox_intersection_conservative"
    /\ Len(call.geoboxes) = 2 /\ MutuallyCompatible(call.geoboxes)
    /\ ~Overlapping(call.geoboxes)
    /\ result.status = "ok"
    /\ ~Within(result.value, call.geoboxes[1])

\* Followed step by step, a call returns what the function gives at once.
ReturnsAsAtOnce ==
    pc = "returned"
    => result =
         CASE call.fn = "densify" -> Return(densify(call.coords, call.resolution))
           [] call.fn = "Geometry.segmented" -> segmented(call.self, call.resolution)
           [] OTHER -> to_crs(call.self, call.crs, call.resolution)

\* A while loop for a positive resolution ends before MaxInserted iterations.
PositiveLoopsFollowedToTheEnd ==
    (pc = "while" /\ locals.resolution > 0) => locals.n < MaxInserted

\* A while loop for a resolution of 0 or less that has made an iteration
\* finds its test true again: d has not grown.
NonPositiveLoopGoesOn ==
    (pc = "while" /\ locals.resolution <= 0 /\ locals.n > 0)
    => /\ locals.d <= locals.resolution
       /\ below_length(locals.d, call.coords[locals.i], call.coords[locals.i + 1])

\* C20: densify, Geometry.segmented and Geometry.to_crs return for every
\* non-empty coordinate list and every finite resolution, 0 and negative
\* resolutions included.
C20_DensificationTerminates == <>(pc = "returned")

\* The projection object a transform-cache entry was keyed by is the object
\* the cache of _make_crs holds for some string.
Retained(proj) == \E c \in crs_cache : c.value.proj = proj

\* C21: every projection object whose identity is in a key of the transform
\* cache is held by the cache of _make_crs, and every transform that
\* transformer_to_crs returned was constructed from the projection objects of
\* the two CRS values of the call, with the flag of the call.
C21_KeysRetainedTransformOfItsPair ==
    /\ \A e \in transform_cache : Retained(e.value.from) /\ Retained(e.value.to)
    /\ \A i \in 1..Len(transforms) :
          /\ transforms[i].transform.from = transforms[i].self._crs
          /\ transforms[i].transform.to = transforms[i].other._crs
          /\ transforms[i].transform.always_xy = transforms[i].always_xy

\* No call of transformer_to_crs obtained a transform constructed for the
\* projection of another string.
TransformOfItsDefinitions ==
    \A i \in 1..Len(transforms) :
        /\ transforms[i].transform.from.definition = transforms[i].self._crs.definition
        /\ transforms[i].transform.to.definition = transforms[i].other._crs.definition

====
